---- MODULE Spec2Model ----
(***************************************************************************)
(* Price tracker of PokePortfolio: the update cycle of                     *)
(* server/priceTracker.ts (recordPricesWithRetry and its two entry points) *)
(* over the tables of server/storage.ts, and the endpoints of              *)
(* server/routes.ts that write the same tables: the card refresh, the      *)
(* recording of a portfolio value and the portfolio routes; the scheduler  *)
(* of the tracker (startPriceTracking, stopPriceTracking) and the          *)
(* refreshPrices of the browser, which calls those endpoints.              *)
(*                                                                         *)
(* Node runs one callback at a time, so every action below is the code     *)
(* between two awaits of one invocation: pc names the await an invocation  *)
(* is suspended at.  Money is counted in half cents upstream and in cents  *)
(* once formatted by toFixed(2).                                           *)
(***************************************************************************)
EXTENDS Integers, Sequences, FiniteSets, Bags, TLC

\* ---------------------------------------------------------------- bounds
MaxCalls == 2        \* trigger invocations (scheduled or manual) in a run
MaxPrice == 1        \* upstream prices are 0..MaxPrice half cents
MaxRequests == 1     \* HTTP requests to the modelled endpoints in a run
MaxQuantity == 2     \* a request body carries a quantity in 0..MaxQuantity
MaxMarket == 2       \* a variant's market price is undefined or in 0..MaxMarket
MaxTime == 5         \* the clock stops at tick MaxTime
MaxStarts == 2       \* calls of startPriceTracking in a run

\* ------------------------------------------------------ program constants
MAX_RETRIES == 5
ChicagoOffset == 1   \* America/Chicago is six hours, one tick, behind UTC
TicksPerDay == 4

Calls == 1..MaxCalls
CardIds == {"c1", "c2"}
UserIds == {"u1", "u2"}
Prices == 0..MaxPrice
Requests == 1..MaxRequests
Quantities == 0..MaxQuantity

VARIABLES
    isRunning,              \* priceTracker.ts:6
    frame,                  \* the locals of each invocation of recordPricesWithRetry
    portfolioCards,         \* table portfolio_cards
    cardPriceHistory,       \* table card_price_history, a bag of rows
    portfolioValueHistory,  \* table portfolio_value_history, a bag of rows
    rowUpdates,             \* row updates of batchUpdatePortfolioCardPrices in flight
    today,                  \* the calendar day in America/Chicago
    now,                    \* new Date(): the instant, in ticks of six hours UTC
    request,                \* the locals of each HTTP request handler
    cachedCards,            \* table cards, the cache: card id -> price
    scheduledTask,          \* priceTracker.ts:5: the task held, 0 for null
    cronTasks,              \* the tasks cron.schedule created, in order, and
                            \* whether each is scheduled or stopped
    client                  \* the locals of refreshPrices in the browser

dbVars == <<portfolioCards, cardPriceHistory, portfolioValueHistory, rowUpdates>>
apiVars == <<request, cachedCards>>
clock == <<today, now>>
scheduler == <<scheduledTask, cronTasks>>
vars == <<isRunning, frame, portfolioCards, cardPriceHistory, portfolioValueHistory,
          rowUpdates, today, now, request, cachedCards, scheduledTask, cronTasks,
          client>>

\* ----------------------------------------------------------- pure helpers
\* Number.prototype.toFixed(2) on an amount of half cents: cents, half up.
toFixed2(x) == (x + 1) \div 2

\* All orders in which a query without ORDER BY may return the set S.
Perms(S) ==
    {s \in [1..Cardinality(S) -> S] : \A i, j \in DOMAIN s : s[i] = s[j] => i = j}

\* DELETE FROM t WHERE ...: bag t without the rows the condition selected.
DeleteWhere(t, selected) ==
    [r \in (DOMAIN t) \ selected |-> t[r]]

\* INSERT INTO t VALUES row: one more copy of row in bag t.
Insert(t, row) ==
    [r \in (DOMAIN t) \cup {row} |-> IF r \in DOMAIN t
                                     THEN t[r] + (IF r = row THEN 1 ELSE 0)
                                     ELSE 1]

\* Map.prototype.set
MapSet(m, k, v) == [x \in (DOMAIN m) \cup {k} |-> IF x = k THEN v ELSE m[x]]

RECURSIVE SumOverIgnoringQuantity(_, _)
\* The total as a sum of prices, the quantity left out.
SumOverIgnoringQuantity(S, m) ==
    IF S = {} THEN 0
    ELSE LET h == CHOOSE x \in S : TRUE
         IN (IF h.cardId \in DOMAIN m THEN m[h.cardId] ELSE 0)
            + SumOverIgnoringQuantity(S \ {h}, m)

RECURSIVE SumOverWithStalePrices(_, _)
\* A holding whose card is not in the map counted at its stored price.
SumOverWithStalePrices(S, m) ==
    IF S = {} THEN 0
    ELSE LET h == CHOOSE x \in S : TRUE
         IN (IF h.cardId \in DOMAIN m THEN m[h.cardId] * h.quantity
             ELSE 2 * h.currentPrice * h.quantity)
            + SumOverWithStalePrices(S \ {h}, m)

RECURSIVE SumOver(_, _)
\* totalValue += latestPrice * card.quantity over the rows of S priced by m
SumOver(S, m) ==
    IF S = {} THEN 0
    ELSE LET h == CHOOSE x \in S : TRUE
         IN (IF h.cardId \in DOMAIN m THEN m[h.cardId] * h.quantity ELSE 0)
            + SumOver(S \ {h}, m)

\* --------------------------------------------------------- calendar days
\* The bounds of today taken in UTC, the timezone left out.
todayInUTC(t) ==
    (t \div TicksPerDay) * TicksPerDay

\* storage.ts:142, toZonedTime(new Date(), timezone): the wall clock of
\* America/Chicago at instant t.
toZonedTime(t) == t - ChicagoOffset

\* storage.ts:149, fromZonedTime(date, timezone): the instant at which the
\* wall clock of America/Chicago shows w.
fromZonedTime(w) == w + ChicagoOffset

\* storage.ts:142-143: midnight of the current day on that wall clock.
todayInCentral(t) ==
    (toZonedTime(t) \div TicksPerDay) * TicksPerDay

\* storage.ts:144-145
tomorrowInCentral(t) == todayInCentral(t) + TicksPerDay

\* storage.ts:148-149: the bounds of the delete, as instants.
todayBound(t) == fromZonedTime(todayInCentral(t))
tomorrowBound(t) == fromZonedTime(tomorrowInCentral(t))

\* The number of the day whose bounds are computed at instant t: the rows
\* of the history tables carry the number of the day they are stamped in.
dayOf(t) == toZonedTime(todayBound(t)) \div TicksPerDay

\* ------------------------------------------------------------ the tables
\* The holdings a run may start with: any subset of these rows.
SeedHoldings ==
    { [id |-> "h1", userId |-> "u1", cardId |-> "c1", quantity |-> 2,
       purchasePrice |-> 3, currentPrice |-> 0],
      [id |-> "h2", userId |-> "u1", cardId |-> "c2", quantity |-> 1,
       purchasePrice |-> 3, currentPrice |-> 0],
      [id |-> "h3", userId |-> "u2", cardId |-> "c1", quantity |-> 1,
       purchasePrice |-> 3, currentPrice |-> 0] }

\* storage.getAllUniqueCardIds
getAllUniqueCardIds == Perms({h.cardId : h \in portfolioCards})

\* storage.getAllUsersWithPortfolios
getAllUsersWithPortfolios == Perms({h.userId : h \in portfolioCards})

\* storage.getAllPortfolioCards
getAllPortfolioCards(userId) == {h \in portfolioCards : h.userId = userId}

\* ------------------------------------------------------------ invocations
NoMap == [x \in {} |-> 0]

Frame0 ==
    [pc |-> "idle", attempt |-> 0, result |-> "pending",
     uniqueCardIds |-> <<>>, i |-> 0, currentPrice |-> 0,
     failedCards |-> <<>>, priceMap |-> NoMap,
     day |-> 0, users |-> <<>>, u |-> 0, totalValue |-> 0,
     passes |-> 0, fetchLog |-> <<>>, skipped |-> FALSE]

\* What is kept of an invocation once it has returned: the value its promise
\* resolved to (and, in skipped, whether it logged "Update already in
\* progress, skipping..."); its locals are out of scope.
Returned(f, value) ==
    [Frame0 EXCEPT !.pc = "done", !.result = value]

\* The locals of a request handler: the route, the card id or the user id
\* it is about, the price or the total it records, the day whose rows its
\* write deletes, and the status of the response once sent.
Request0 ==
    [pc |-> "idle", route |-> "none", key |-> "none", value |-> 0,
     day |-> 0, status |-> 0, id |-> "none", body |-> NoMap]

\* part_000:100-151, the locals of a call of refreshPrices: the user of the
\* session, the holdings the portfolio query had cached (cards), the
\* refreshes in flight, the element of priceUpdates of each settled one,
\* the PATCH requests in flight and the total sent for recording.
Client0 ==
    [pc |-> "idle", userId |-> "none", cards |-> {}, refreshes |-> {},
     priceUpdates |-> NoMap, patches |-> {}, totalValue |-> 0,
     result |-> "pending"]

\* The module is loaded: priceTracker.ts:5-6 and the empty history tables.
InitData ==
    /\ isRunning = FALSE
    /\ frame = [p \in Calls |-> Frame0]
    /\ portfolioCards \in SUBSET SeedHoldings
    /\ cardPriceHistory = EmptyBag
    /\ portfolioValueHistory = EmptyBag
    /\ rowUpdates = {}
    /\ today = 0
    /\ now = ChicagoOffset
    /\ request = [r \in Requests |-> Request0]
    /\ cachedCards = NoMap
    /\ client = Client0

\* The server at work: the module is loaded and startPriceTracking was
\* called once at boot, so one task is scheduled and scheduledTask holds it.
Init ==
    /\ InitData
    /\ scheduledTask = 1
    /\ cronTasks = <<"scheduled">>

\* ------------------------------------------------- control flow of a call
\* The outer catch left out: the failure reaches the caller.
ThrowUncaught(f) ==
    Returned(f, "rejected")

\* priceTracker.ts:112-124, the outer catch: wait for a retry, or give up.
Throw(f) ==
    IF f.attempt < MAX_RETRIES
    THEN [f EXCEPT !.pc = "retryWait"]
    ELSE Returned(f, "false")

\* The throw only when no card at all was priced.
NextCardLenient(f) ==
    IF f.i < Len(f.uniqueCardIds)
    THEN [f EXCEPT !.pc = "fetch", !.i = @ + 1]
    ELSE LET g == [f EXCEPT !.passes = @ + 1]
         IN IF Len(g.failedCards) = Len(g.uniqueCardIds)
            THEN Throw(g) ELSE [g EXCEPT !.pc = "users"]

\* The failed list never looked at.
NextCardIgnoringFailures(f) ==
    IF f.i < Len(f.uniqueCardIds)
    THEN [f EXCEPT !.pc = "fetch", !.i = @ + 1]
    ELSE [f EXCEPT !.passes = @ + 1, !.pc = "users"]

\* priceTracker.ts:41,62-71: the for-of loop moves to its next card; past the
\* last one the failed list decides between the throw and the valuation.
NextCard(f) ==
    IF f.i < Len(f.uniqueCardIds)
    THEN [f EXCEPT !.pc = "fetch", !.i = @ + 1]
    ELSE LET g == [f EXCEPT !.passes = @ + 1]
         IN IF Len(g.failedCards) > 0 THEN Throw(g) ELSE [g EXCEPT !.pc = "users"]

\* The catch around the loop instead of inside it: the first failure ends
\* the pass.
CardFailedAborts(f) ==
    Throw([f EXCEPT !.failedCards = Append(@, f.uniqueCardIds[f.i]),
                    !.passes = @ + 1])

\* priceTracker.ts:58-61, the per-card catch.
CardFailed(f) ==
    NextCard([f EXCEPT !.failedCards = Append(@, f.uniqueCardIds[f.i])])

\* priceTracker.ts:73,105-111: the per-user loop moves to its next user; past
\* the last one the call returns true.
NextUser(f) ==
    IF f.u < Len(f.users)
    THEN [f EXCEPT !.pc = "cards", !.u = @ + 1, !.totalValue = 0]
    ELSE Returned(f, "true")

\* The guard left out: every call passes.
AlreadyRunningUnguarded == FALSE

\* priceTracker.ts:17, the guard.
AlreadyRunning == isRunning

\* The guard inside the try block and throwing: the dropped call waits
\* for a retry of its own.
SkippedQueued(f) ==
    [Frame0 EXCEPT !.pc = "retryWait", !.attempt = 1]

\* priceTracker.ts:18-19: the locals of a call that found the flag set.
Skipped(f) ==
    [Returned(f, "false") EXCEPT !.skipped = TRUE]

\* priceTracker.ts:22-28: the locals of a call that passed the guard and
\* awaits the listing of the card ids.
Started(f, n) ==
    [Frame0 EXCEPT !.pc = "list", !.attempt = n, !.passes = f.passes]

\* The flag released when the retry wait starts.
StepReleasingOnWait(p, f2) ==
    /\ frame' = [frame EXCEPT ![p] = f2]
    /\ isRunning' = IF f2.pc \in {"done", "retryWait"} THEN FALSE ELSE isRunning

\* The finally block left out: a return leaves the flag as it is.
StepWithoutFinally(p, f2) ==
    /\ frame' = [frame EXCEPT ![p] = f2]
    /\ UNCHANGED isRunning

\* One step of call p to the locals f2.  Every return from inside the try
\* block passes the finally of priceTracker.ts:125-127.
Step(p, f2) ==
    /\ frame' = [frame EXCEPT ![p] = f2]
    /\ isRunning' = IF f2.pc = "done" THEN FALSE ELSE isRunning

\* ------------------------------------------------------------ entry points
HasIdle == \E p \in Calls : frame[p].pc = "idle"
NextCall == CHOOSE p \in Calls : frame[p].pc = "idle" /\ \A q \in 1..(p - 1) : frame[q].pc # "idle"

\* The guard inside the try block: the finally clears the flag of the cycle
\* in flight.
SkipReleasingFlag(p) ==
    /\ frame' = [frame EXCEPT ![p] = Skipped(@)]
    /\ isRunning' = FALSE

\* priceTracker.ts:17-20: the trigger is dropped, before the try block.
Skip(p) ==
    /\ frame' = [frame EXCEPT ![p] = Skipped(@)]
    /\ UNCHANGED isRunning

\* The attempt parameter with default 0: a counter from zero, which the test
\* attempt < MAX_RETRIES lets run one attempt more than the maximum.
StartAtZero(p) ==
    /\ frame' = [frame EXCEPT ![p] = Started(@, 0)]
    /\ isRunning' = TRUE

\* The attempt number kept across cycles instead of being a parameter with
\* default 1: a cycle starts where the calls before it left off.
StartCarryingAttempts(p) ==
    /\ frame' = [frame EXCEPT ![p] =
                   Started(@, 1 + Cardinality({q \in Calls : frame[q].pc = "done"}))]
    /\ isRunning' = TRUE

\* priceTracker.ts:22-28
Start(p) ==
    /\ frame' = [frame EXCEPT ![p] = Started(@, 1)]
    /\ isRunning' = TRUE

\* priceTracker.ts:15-28, called with the default attempt = 1
recordPricesWithRetry(p) ==
    IF AlreadyRunning THEN Skip(p) ELSE Start(p)

\* priceTracker.ts:134-144, the cron callback: a task that is scheduled
\* fires.
ScheduledTrigger ==
    /\ \E t \in DOMAIN cronTasks : cronTasks[t] = "scheduled"
    /\ HasIdle
    /\ recordPricesWithRetry(NextCall)
    /\ UNCHANGED <<dbVars, clock, apiVars, scheduler, client>>

\* priceTracker.ts:160-163
triggerManualUpdate ==
    /\ HasIdle
    /\ recordPricesWithRetry(NextCall)
    /\ UNCHANGED <<dbVars, clock, apiVars, scheduler, client>>

\* ------------------------------------------------------ the card listing
\* The early return of an empty listing left out: the call goes on to the
\* loop and the valuation.
ListWithoutEarlyReturn(p) ==
    /\ frame[p].pc = "list"
    /\ \E ids \in getAllUniqueCardIds :
          Step(p, NextCard([frame[p] EXCEPT !.uniqueCardIds = ids]))
    /\ UNCHANGED <<dbVars, clock, apiVars, scheduler, client>>

\* priceTracker.ts:28-39: the listing resolves.
List(p) ==
    /\ frame[p].pc = "list"
    /\ \E ids \in getAllUniqueCardIds :
          LET f == [frame[p] EXCEPT !.uniqueCardIds = ids]
          IN Step(p, IF Len(ids) = 0
                     THEN Returned(f, "true")
                     ELSE [f EXCEPT !.pc = "fetch", !.i = 1])
    /\ UNCHANGED <<dbVars, clock, apiVars, scheduler, client>>

\* priceTracker.ts:28,112: the listing rejects.
ListFails(p) ==
    /\ frame[p].pc = "list"
    /\ Step(p, Throw(frame[p]))
    /\ UNCHANGED <<dbVars, clock, apiVars, scheduler, client>>

\* recordCardPrice called without await: the loop goes on while the history
\* write is still to be made.
FetchNotAwaitingRecord(p) ==
    /\ frame[p].pc = "fetch"
    /\ \E price \in Prices :
          Step(p, [frame[p] EXCEPT
                     !.pc = "delay", !.currentPrice = price,
                     !.priceMap = MapSet(@, frame[p].uniqueCardIds[frame[p].i], price),
                     !.fetchLog = Append(@, frame[p].uniqueCardIds[frame[p].i])])
    /\ UNCHANGED <<dbVars, clock, apiVars, scheduler, client>>

\* ---------------------------------------------------------- the fetch loop
\* priceTracker.ts:44-49 and storage.ts:140-149: getCardById resolves, the
\* price is selected and recordCardPrice computes the bounds of today.
Fetch(p) ==
    /\ frame[p].pc = "fetch"
    /\ \E price \in Prices :
          Step(p, [frame[p] EXCEPT !.pc = "rcpDelete", !.currentPrice = price,
                                   !.day = today,
                                   !.fetchLog = Append(@, frame[p].uniqueCardIds[frame[p].i])])
    /\ UNCHANGED <<dbVars, clock, apiVars, scheduler, client>>

\* The failure of a card undoing the pass: the rows written for the cards
\* priced so far are deleted.
FetchFailsRollingBack(p) ==
    /\ frame[p].pc = "fetch"
    /\ cardPriceHistory' =
          DeleteWhere(cardPriceHistory,
                      {r \in DOMAIN cardPriceHistory :
                         r.cardId \in DOMAIN frame[p].priceMap})
    /\ Step(p, CardFailed([frame[p] EXCEPT
                  !.fetchLog = Append(@, frame[p].uniqueCardIds[frame[p].i])]))
    /\ UNCHANGED <<portfolioCards, portfolioValueHistory, rowUpdates, clock, apiVars, scheduler, client>>

\* priceTracker.ts:44,58-61: getCardById rejects.
FetchFails(p) ==
    /\ frame[p].pc = "fetch"
    /\ Step(p, CardFailed([frame[p] EXCEPT
                  !.fetchLog = Append(@, frame[p].uniqueCardIds[frame[p].i])]))
    /\ UNCHANGED <<dbVars, clock, apiVars, scheduler, client>>

\* The delete statement left out: recordCardPrice only inserts.
RcpDeleteNothing(p) ==
    /\ frame[p].pc = "rcpDelete"
    /\ Step(p, [frame[p] EXCEPT !.pc = "rcpInsert"])
    /\ UNCHANGED <<dbVars, clock, apiVars, scheduler, client>>

\* storage.ts:152-158: today's rows of the card are deleted.
RcpDelete(p) ==
    /\ frame[p].pc = "rcpDelete"
    /\ cardPriceHistory' =
          DeleteWhere(cardPriceHistory,
                      {r \in DOMAIN cardPriceHistory :
                         r.cardId = frame[p].uniqueCardIds[frame[p].i]
                         /\ r.recordedAt = frame[p].day})
    /\ Step(p, [frame[p] EXCEPT !.pc = "rcpInsert"])
    /\ UNCHANGED <<portfolioCards, portfolioValueHistory, rowUpdates, clock, apiVars, scheduler, client>>

\* The price written to the holdings of the card as soon as it is recorded,
\* before the pass is known to be clean.
RcpInsertUpdatingHoldings(p) ==
    /\ frame[p].pc = "rcpInsert"
    /\ cardPriceHistory' =
          Insert(cardPriceHistory,
                 [cardId |-> frame[p].uniqueCardIds[frame[p].i],
                  price |-> toFixed2(frame[p].currentPrice),
                  recordedAt |-> today])
    /\ portfolioCards' =
          { IF h.cardId = frame[p].uniqueCardIds[frame[p].i]
            THEN [h EXCEPT !.currentPrice = toFixed2(frame[p].currentPrice)]
            ELSE h : h \in portfolioCards }
    /\ Step(p, [frame[p] EXCEPT
                  !.pc = "delay",
                  !.priceMap = MapSet(@, frame[p].uniqueCardIds[frame[p].i],
                                      frame[p].currentPrice)])
    /\ UNCHANGED <<portfolioValueHistory, rowUpdates, clock, apiVars, scheduler, client>>

\* storage.ts:161 and priceTracker.ts:49-57: the row is inserted, stamped by
\* the database clock, and the price enters the map.
RcpInsert(p) ==
    /\ frame[p].pc = "rcpInsert"
    /\ cardPriceHistory' =
          Insert(cardPriceHistory,
                 [cardId |-> frame[p].uniqueCardIds[frame[p].i],
                  price |-> toFixed2(frame[p].currentPrice),
                  recordedAt |-> today])
    /\ Step(p, [frame[p] EXCEPT
                  !.pc = "delay",
                  !.priceMap = MapSet(@, frame[p].uniqueCardIds[frame[p].i],
                                      frame[p].currentPrice)])
    /\ UNCHANGED <<portfolioCards, portfolioValueHistory, rowUpdates, clock, apiVars, scheduler, client>>

\* The price put in the map before recordCardPrice is awaited: a card whose
\* history write rejects is in the map and in the failed list.
RecordCardPriceFailsKeepingPrice(p) ==
    /\ frame[p].pc \in {"rcpDelete", "rcpInsert"}
    /\ Step(p, CardFailed([frame[p] EXCEPT
                  !.priceMap = MapSet(@, frame[p].uniqueCardIds[frame[p].i],
                                      frame[p].currentPrice)]))
    /\ UNCHANGED <<dbVars, clock, apiVars, scheduler, client>>

\* storage.ts:152,161 and priceTracker.ts:58-61: a statement of
\* recordCardPrice rejects.
RecordCardPriceFails(p) ==
    /\ frame[p].pc \in {"rcpDelete", "rcpInsert"}
    /\ Step(p, CardFailed(frame[p]))
    /\ UNCHANGED <<dbVars, clock, apiVars, scheduler, client>>

\* priceTracker.ts:57,62-71: the inter-request delay ends.
Delay(p) ==
    /\ frame[p].pc = "delay"
    /\ Step(p, NextCard(frame[p]))
    /\ UNCHANGED <<dbVars, clock, apiVars, scheduler, client>>

\* ------------------------------------------------------ the valuation phase
\* priceTracker.ts:71-73: the users with holdings are listed.
GetUsers(p) ==
    /\ frame[p].pc = "users"
    /\ \E us \in getAllUsersWithPortfolios :
          Step(p, NextUser([frame[p] EXCEPT !.users = us, !.u = 0]))
    /\ UNCHANGED <<dbVars, clock, apiVars, scheduler, client>>

\* priceTracker.ts:71,112: the listing of the users rejects, outside the
\* per-user try block.
GetUsersFails(p) ==
    /\ frame[p].pc = "users"
    /\ Step(p, Throw(frame[p]))
    /\ UNCHANGED <<dbVars, clock, apiVars, scheduler, client>>

\* priceTracker.ts:79-95: one update per holding whose card is in the map.
PriceUpdates(user, cards, priceMap) ==
    { [id |-> h.id, userId |-> user, currentPrice |-> toFixed2(priceMap[h.cardId])] :
        h \in {x \in cards : x.cardId \in DOMAIN priceMap} }

\* priceTracker.ts:76-103: the user's holdings are read; the updates and the
\* total are computed; the batch is issued (storage.ts:246-253 starts every
\* row update at once), or with no update recordPortfolioValue is entered.
GetCards(p) ==
    /\ frame[p].pc = "cards"
    /\ LET f == frame[p]
           user == f.users[f.u]
           cards == getAllPortfolioCards(user)
           priceUpdates == PriceUpdates(user, cards, f.priceMap)
           total == SumOver(cards, f.priceMap)
       IN IF priceUpdates # {}
          THEN /\ rowUpdates' = rowUpdates \cup
                     {[owner |-> p, id |-> x.id, userId |-> x.userId,
                       currentPrice |-> x.currentPrice] : x \in priceUpdates}
               /\ Step(p, [f EXCEPT !.pc = "batch", !.totalValue = total])
          ELSE /\ UNCHANGED rowUpdates
               /\ Step(p, [f EXCEPT !.pc = "rpvDelete", !.totalValue = total,
                                    !.day = today])
    /\ UNCHANGED <<portfolioCards, cardPriceHistory, portfolioValueHistory, clock, apiVars, scheduler, client>>

\* The catch around the per-user loop instead of inside it: the first
\* failure ends the valuation.
GetCardsFailsEndingLoop(p) ==
    /\ frame[p].pc = "cards"
    /\ Step(p, Returned(frame[p], "true"))
    /\ UNCHANGED <<dbVars, clock, apiVars, scheduler, client>>

\* priceTracker.ts:76,105-107: reading the holdings rejects.
GetCardsFails(p) ==
    /\ frame[p].pc = "cards"
    /\ Step(p, NextUser(frame[p]))
    /\ UNCHANGED <<dbVars, clock, apiVars, scheduler, client>>

\* The where clause on the user alone: the update reaches every holding of
\* the user.
RowUpdateOfUser(r) ==
    /\ r \in rowUpdates
    /\ portfolioCards' =
          { IF h.userId = r.userId
            THEN [h EXCEPT !.currentPrice = r.currentPrice] ELSE h :
              h \in portfolioCards }
    /\ rowUpdates' = rowUpdates \ {r}
    /\ IF r.owner # 0 /\ ~ \E x \in rowUpdates \ {r} : x.owner = r.owner
       THEN Step(r.owner, [frame[r.owner] EXCEPT !.pc = "rpvDelete", !.day = today])
       ELSE UNCHANGED <<frame, isRunning>>
    /\ UNCHANGED <<cardPriceHistory, portfolioValueHistory, clock, apiVars, scheduler, client>>

\* storage.ts:248-251: one row update of a batch is applied. When it was the
\* last of its batch, Promise.all resolves and the caller enters
\* recordPortfolioValue (priceTracker.ts:103, storage.ts:177-186).
RowUpdate(r) ==
    /\ r \in rowUpdates
    /\ portfolioCards' =
          { IF h.id = r.id /\ h.userId = r.userId
            THEN [h EXCEPT !.currentPrice = r.currentPrice] ELSE h :
              h \in portfolioCards }
    /\ rowUpdates' = rowUpdates \ {r}
    /\ IF r.owner # 0 /\ ~ \E x \in rowUpdates \ {r} : x.owner = r.owner
       THEN Step(r.owner, [frame[r.owner] EXCEPT !.pc = "rpvDelete", !.day = today])
       ELSE UNCHANGED <<frame, isRunning>>
    /\ UNCHANGED <<cardPriceHistory, portfolioValueHistory, clock, apiVars, scheduler, client>>

\* The rejection of a row update swallowed inside the batch: the caller
\* goes on to record the value of the user.
RowUpdateFailsStillRecording(r) ==
    /\ r \in rowUpdates
    /\ rowUpdates' = rowUpdates \ {r}
    /\ IF r.owner # 0 /\ ~ \E x \in rowUpdates \ {r} : x.owner = r.owner
       THEN Step(r.owner, [frame[r.owner] EXCEPT !.pc = "rpvDelete", !.day = today])
       ELSE UNCHANGED <<frame, isRunning>>
    /\ UNCHANGED <<portfolioCards, cardPriceHistory, portfolioValueHistory, clock, apiVars, scheduler, client>>

\* storage.ts:246 and priceTracker.ts:105-107: one row update rejects, so
\* Promise.all rejects and the caller moves to its next user; the other row
\* updates of the batch stay in flight with nobody awaiting them.
RowUpdateFails(r) ==
    /\ r \in rowUpdates
    /\ rowUpdates' = { IF x.owner = r.owner THEN [x EXCEPT !.owner = 0] ELSE x :
                         x \in rowUpdates \ {r} }
    /\ IF r.owner # 0
       THEN Step(r.owner, NextUser(frame[r.owner]))
       ELSE UNCHANGED <<frame, isRunning>>
    /\ UNCHANGED <<portfolioCards, cardPriceHistory, portfolioValueHistory, clock, apiVars, scheduler, client>>

\* storage.ts:189-195: today's rows of the user are deleted.
RpvDelete(p) ==
    /\ frame[p].pc = "rpvDelete"
    /\ portfolioValueHistory' =
          DeleteWhere(portfolioValueHistory,
                      {r \in DOMAIN portfolioValueHistory :
                         r.userId = frame[p].users[frame[p].u]
                         /\ r.recordedAt = frame[p].day})
    /\ Step(p, [frame[p] EXCEPT !.pc = "rpvInsert"])
    /\ UNCHANGED <<portfolioCards, cardPriceHistory, rowUpdates, clock, apiVars, scheduler, client>>

\* storage.ts:198 and priceTracker.ts:103-108: the row is inserted.
RpvInsert(p) ==
    /\ frame[p].pc = "rpvInsert"
    /\ portfolioValueHistory' =
          Insert(portfolioValueHistory,
                 [userId |-> frame[p].users[frame[p].u],
                  totalValue |-> toFixed2(frame[p].totalValue),
                  recordedAt |-> today])
    /\ Step(p, NextUser(frame[p]))
    /\ UNCHANGED <<portfolioCards, cardPriceHistory, rowUpdates, clock, apiVars, scheduler, client>>

\* storage.ts:189,198 and priceTracker.ts:105-107: a statement of
\* recordPortfolioValue rejects.
RecordPortfolioValueFails(p) ==
    /\ frame[p].pc \in {"rpvDelete", "rpvInsert"}
    /\ Step(p, NextUser(frame[p]))
    /\ UNCHANGED <<dbVars, clock, apiVars, scheduler, client>>

\* ------------------------------------------------------------- the retry
\* priceTracker.ts:118-119,125-127: the retry delay ends and the function
\* calls itself with attempt + 1, still inside its own try block; the inner
\* call runs priceTracker.ts:15-28 and then the outer finally clears the flag.
RetryCall(p) ==
    /\ frame[p].pc = "retryWait"
    /\ frame' = [frame EXCEPT ![p] =
                   IF AlreadyRunning
                   THEN Skipped(@)
                   ELSE Started(@, @.attempt + 1)]
    /\ isRunning' = FALSE
    /\ UNCHANGED <<dbVars, clock, apiVars, scheduler, client>>

\* The event loop: any callback that is ready runs. No midnight of the
\* reference timezone passes within a run, so today stays the day of Init.
Next ==
    \/ ScheduledTrigger
    \/ triggerManualUpdate
    \/ \E p \in Calls :
          \/ List(p) \/ ListFails(p)
          \/ Fetch(p) \/ FetchFails(p)
          \/ RcpDelete(p) \/ RcpInsert(p) \/ RecordCardPriceFails(p)
          \/ Delay(p)
          \/ GetUsers(p) \/ GetUsersFails(p)
          \/ GetCards(p) \/ GetCardsFails(p)
          \/ RpvDelete(p) \/ RpvInsert(p) \/ RecordPortfolioValueFails(p)
          \/ RetryCall(p)
    \/ \E r \in rowUpdates : RowUpdate(r) \/ RowUpdateFails(r)

Spec == Init /\ [][Next]_vars

\* ------------------------------------------------- the recording endpoints
\* One step of request r to the locals q2.
Reply(r, q2) ==
    request' = [request EXCEPT ![r] = q2]

\* res.json(...) or res.status(500).json(...): the handler is over.
Responded(q, code) ==
    [q EXCEPT !.pc = "done", !.status = code]

\* routes.ts:279-282: POST /api/cards/:id/refresh arrives and getCardById
\* is awaited.
RefreshRequest(r, id) ==
    /\ request[r].pc = "idle"
    /\ Reply(r, [Request0 EXCEPT !.pc = "getCard", !.route = "refresh", !.key = id])
    /\ UNCHANGED <<isRunning, frame, dbVars, clock, cachedCards, scheduler, client>>

\* routes.ts:282-292: the card arrives, its price is selected and cacheCard
\* is awaited.
RefreshGetCard(r) ==
    /\ request[r].pc = "getCard"
    /\ \E price \in Prices :
          Reply(r, [request[r] EXCEPT !.pc = "cacheCard", !.value = price])
    /\ UNCHANGED <<isRunning, frame, dbVars, clock, cachedCards, scheduler, client>>

\* storage.ts:72-82 and routes.ts:295, storage.ts:140-158: the cache row is
\* upserted; recordCardPrice computes the bounds of today and awaits its
\* delete.
RefreshCacheCard(r) ==
    /\ request[r].pc = "cacheCard"
    /\ cachedCards' = MapSet(cachedCards, request[r].key, toFixed2(request[r].value))
    /\ Reply(r, [request[r] EXCEPT !.pc = "rcpDelete", !.day = today])
    /\ UNCHANGED <<isRunning, frame, dbVars, clock, scheduler, client>>

\* storage.ts:152-158: today's rows of the card are deleted.
RefreshRcpDelete(r) ==
    /\ request[r].pc = "rcpDelete"
    /\ cardPriceHistory' =
          DeleteWhere(cardPriceHistory,
                      {x \in DOMAIN cardPriceHistory :
                         x.cardId = request[r].key /\ x.recordedAt = request[r].day})
    /\ Reply(r, [request[r] EXCEPT !.pc = "rcpInsert"])
    /\ UNCHANGED <<isRunning, frame, portfolioCards, portfolioValueHistory,
                   rowUpdates, clock, cachedCards, scheduler, client>>

\* storage.ts:161 and routes.ts:297-307: the row is inserted and the card
\* is sent.
RefreshRcpInsert(r) ==
    /\ request[r].pc = "rcpInsert"
    /\ cardPriceHistory' =
          Insert(cardPriceHistory,
                 [cardId |-> request[r].key,
                  price |-> toFixed2(request[r].value),
                  recordedAt |-> today])
    /\ Reply(r, Responded(request[r], 200))
    /\ UNCHANGED <<isRunning, frame, portfolioCards, portfolioValueHistory,
                   rowUpdates, clock, cachedCards, scheduler, client>>

\* routes.ts:308-311: an awaited statement of the handler rejects.
RefreshFails(r) ==
    /\ request[r].route = "refresh"
    /\ request[r].pc \in {"getCard", "cacheCard", "rcpDelete", "rcpInsert"}
    /\ Reply(r, Responded(request[r], 500))
    /\ UNCHANGED <<isRunning, frame, dbVars, clock, cachedCards, scheduler, client>>

RECURSIVE reduceValue(_)
\* routes.ts:427-430: sum + card.quantity * parseFloat(card.currentPrice),
\* in cents.
reduceValue(S) ==
    IF S = {} THEN 0
    ELSE LET h == CHOOSE x \in S : TRUE
         IN h.quantity * h.currentPrice + reduceValue(S \ {h})

\* routes.ts:409-419,434 and storage.ts:177-195: POST
\* /api/portfolio-value/record of an authenticated user arrives with a
\* total in its body; recordPortfolioValue computes the bounds of today and
\* awaits its delete.
RecordRequestWithValue(r, userId, providedValue) ==
    /\ request[r].pc = "idle"
    /\ Reply(r, [Request0 EXCEPT !.pc = "rpvDelete", !.route = "record",
                                 !.key = userId, !.value = providedValue,
                                 !.day = today])
    /\ UNCHANGED <<isRunning, frame, dbVars, clock, cachedCards, scheduler, client>>

\* routes.ts:409-421: the request arrives without a total and the holdings
\* of the user are awaited.
RecordRequest(r, userId) ==
    /\ request[r].pc = "idle"
    /\ Reply(r, [Request0 EXCEPT !.pc = "getCards", !.route = "record",
                                 !.key = userId])
    /\ UNCHANGED <<isRunning, frame, dbVars, clock, cachedCards, scheduler, client>>

\* routes.ts:421-434: the holdings arrive; with none the reply is sent and
\* nothing is recorded, otherwise the total is computed and
\* recordPortfolioValue is entered.
RecordGetCards(r) ==
    /\ request[r].pc = "getCards"
    /\ LET holdings == getAllPortfolioCards(request[r].key)
       IN Reply(r, IF holdings = {}
                   THEN Responded(request[r], 200)
                   ELSE [request[r] EXCEPT !.pc = "rpvDelete",
                                           !.value = 2 * reduceValue(holdings),
                                           !.day = today])
    /\ UNCHANGED <<isRunning, frame, dbVars, clock, cachedCards, scheduler, client>>

\* storage.ts:189-195: today's rows of the user are deleted.
RecordRpvDelete(r) ==
    /\ request[r].route = "record"
    /\ request[r].pc = "rpvDelete"
    /\ portfolioValueHistory' =
          DeleteWhere(portfolioValueHistory,
                      {x \in DOMAIN portfolioValueHistory :
                         x.userId = request[r].key /\ x.recordedAt = request[r].day})
    /\ Reply(r, [request[r] EXCEPT !.pc = "rpvInsert"])
    /\ UNCHANGED <<isRunning, frame, portfolioCards, cardPriceHistory,
                   rowUpdates, clock, cachedCards, scheduler, client>>

\* storage.ts:198 and routes.ts:434-436: the row is inserted and the total
\* is sent.
RecordRpvInsert(r) ==
    /\ request[r].route = "record"
    /\ request[r].pc = "rpvInsert"
    /\ portfolioValueHistory' =
          Insert(portfolioValueHistory,
                 [userId |-> request[r].key,
                  totalValue |-> toFixed2(request[r].value),
                  recordedAt |-> today])
    /\ Reply(r, Responded(request[r], 200))
    /\ UNCHANGED <<isRunning, frame, portfolioCards, cardPriceHistory,
                   rowUpdates, clock, cachedCards, scheduler, client>>

\* routes.ts:437-440: an awaited statement of the handler rejects.
RecordFails(r) ==
    /\ request[r].route = "record"
    /\ request[r].pc \in {"getCards", "rpvDelete", "rpvInsert"}
    /\ Reply(r, Responded(request[r], 500))
    /\ UNCHANGED <<isRunning, frame, dbVars, clock, cachedCards, scheduler, client>>

\* The event loop of the server: the callbacks of the tracker and those of
\* the two endpoints, in any order.
NextApi ==
    \/ Next
    \/ \E r \in Requests :
          \/ \E id \in CardIds : RefreshRequest(r, id)
          \/ RefreshGetCard(r) \/ RefreshCacheCard(r)
          \/ RefreshRcpDelete(r) \/ RefreshRcpInsert(r) \/ RefreshFails(r)
          \/ \E userId \in UserIds, providedValue \in Prices :
                RecordRequestWithValue(r, userId, providedValue)
          \/ \E userId \in UserIds : RecordRequest(r, userId)
          \/ RecordGetCards(r)
          \/ RecordRpvDelete(r) \/ RecordRpvInsert(r) \/ RecordFails(r)

\* The tracker and the endpoints over a portfolio of at most one holding.
InitApi ==
    /\ Init
    /\ Cardinality(portfolioCards) <= 1

SpecApi == InitApi /\ [][NextApi]_vars

\* --------------------------------------------------- the portfolio routes
\* The bodies of POST /api/portfolio: well-typed, with any quantity.
CreateBodies ==
    [cardId : CardIds, quantity : Quantities, purchasePrice : {6},
     currentPrice : Prices]

\* The bodies of PATCH /api/portfolio/:id: a quantity, a current price, or
\* both.
PatchBodies ==
    {[quantity |-> n] : n \in Quantities}
    \cup {[currentPrice |-> x] : x \in Prices}
    \cup {[quantity |-> n, currentPrice |-> x] : n \in Quantities, x \in Prices}

\* The schema without its constraint on the quantity.
safeParseAnyQuantity(body) ==
    TRUE

\* schema.ts:62-76, insertPortfolioCardSchema (and its partial()): the
\* quantity, when present, is a positive integer.
safeParseSuccess(body) ==
    "quantity" \in DOMAIN body => body["quantity"] >= 1

\* schema.ts:58-74: the data of a parsed body, prices formatted by
\* toFixed(2).
validationData(body) ==
    [k \in DOMAIN body |->
        IF k \in {"purchasePrice", "currentPrice"} THEN toFixed2(body[k])
        ELSE body[k]]

\* schema.ts:23, gen_random_uuid(): the id of the row request r creates.
NewId(r) == <<"h4", "h5", "h6", "h7">>[r]

\* routes.ts:326-335: POST /api/portfolio of an authenticated user; a body
\* that fails validation is answered 400, otherwise createPortfolioCard is
\* awaited.
PostPortfolio(r, userId, body) ==
    /\ request[r].pc = "idle"
    /\ LET q == [Request0 EXCEPT !.route = "create", !.key = userId]
       IN Reply(r, IF safeParseSuccess(body)
                   THEN [q EXCEPT !.pc = "create", !.body = validationData(body)]
                   ELSE Responded(q, 400))
    /\ UNCHANGED <<isRunning, frame, dbVars, clock, cachedCards, scheduler, client>>

\* storage.ts:120-123 and routes.ts:335-336: the row is inserted.
CreateDone(r) ==
    /\ request[r].pc = "create"
    /\ portfolioCards' = portfolioCards \cup
          {[id |-> NewId(r), userId |-> request[r].key,
            cardId |-> request[r].body["cardId"],
            quantity |-> request[r].body["quantity"],
            purchasePrice |-> request[r].body["purchasePrice"],
            currentPrice |-> request[r].body["currentPrice"]]}
    /\ Reply(r, Responded([request[r] EXCEPT !.id = NewId(r)], 200))
    /\ UNCHANGED <<isRunning, frame, cardPriceHistory, portfolioValueHistory,
                   rowUpdates, clock, cachedCards, scheduler, client>>

\* routes.ts:343-356: PATCH /api/portfolio/:id; the partial schema is
\* applied and updatePortfolioCard is awaited.
PatchPortfolio(r, userId, id, body) ==
    /\ request[r].pc = "idle"
    /\ LET q == [Request0 EXCEPT !.route = "patch", !.key = userId, !.id = id]
       IN Reply(r, IF safeParseSuccess(body)
                   THEN [q EXCEPT !.pc = "update", !.body = validationData(body)]
                   ELSE Responded(q, 400))
    /\ UNCHANGED <<isRunning, frame, dbVars, clock, cachedCards, scheduler, client>>

\* storage.ts:125-132 and routes.ts:356-360: the rows matching id and user
\* are updated; with no row returned the answer is 404.
UpdateDone(r) ==
    /\ request[r].pc = "update"
    /\ LET q == request[r]
           hit(h) == h.id = q.id /\ h.userId = q.key
       IN /\ portfolioCards' =
                { IF hit(h)
                  THEN [h EXCEPT
                          !.quantity = IF "quantity" \in DOMAIN q.body
                                       THEN q.body["quantity"] ELSE @,
                          !.currentPrice = IF "currentPrice" \in DOMAIN q.body
                                           THEN q.body["currentPrice"] ELSE @]
                  ELSE h : h \in portfolioCards }
          /\ Reply(r, Responded(q, IF \E h \in portfolioCards : hit(h)
                                   THEN 200 ELSE 404))
    /\ UNCHANGED <<isRunning, frame, cardPriceHistory, portfolioValueHistory,
                   rowUpdates, clock, cachedCards, scheduler, client>>

\* routes.ts:367-371: DELETE /api/portfolio/:id; deletePortfolioCard is
\* awaited.
DeletePortfolio(r, userId, id) ==
    /\ request[r].pc = "idle"
    /\ Reply(r, [Request0 EXCEPT !.pc = "delete", !.route = "delete",
                                 !.key = userId, !.id = id])
    /\ UNCHANGED <<isRunning, frame, dbVars, clock, cachedCards, scheduler, client>>

\* storage.ts:134-137 and routes.ts:371-372: the rows matching id and user
\* are deleted; the function returns true and the answer is
\* { success: true }, whatever was deleted.
DeleteDone(r) ==
    /\ request[r].pc = "delete"
    /\ portfolioCards' =
          {h \in portfolioCards :
             ~(h.id = request[r].id /\ h.userId = request[r].key)}
    /\ Reply(r, Responded(request[r], 200))
    /\ UNCHANGED <<isRunning, frame, cardPriceHistory, portfolioValueHistory,
                   rowUpdates, clock, cachedCards, scheduler, client>>

\* routes.ts:337-340,361-364,373-376: the awaited statement rejects.
PortfolioFails(r) ==
    /\ request[r].pc \in {"create", "update", "delete"}
    /\ Reply(r, Responded(request[r], 500))
    /\ UNCHANGED <<isRunning, frame, dbVars, clock, cachedCards, scheduler, client>>

\* The ids a request may name: those of the seed rows.
HoldingIds == {h.id : h \in SeedHoldings}

\* The event loop of the server: the callbacks of the tracker and those of
\* the portfolio routes, in any order.
NextPortfolio ==
    \/ Next
    \/ \E r \in Requests :
          \/ \E userId \in UserIds, body \in CreateBodies :
                PostPortfolio(r, userId, body)
          \/ CreateDone(r)
          \/ \E userId \in UserIds, id \in HoldingIds, body \in PatchBodies :
                PatchPortfolio(r, userId, id, body)
          \/ UpdateDone(r)
          \/ \E userId \in UserIds, id \in HoldingIds :
                DeletePortfolio(r, userId, id)
          \/ DeleteDone(r)
          \/ PortfolioFails(r)

\* The tracker and the portfolio routes over at most one seed holding.
SpecPortfolio == InitApi /\ [][NextPortfolio]_vars

\* ------------------------------------------------------- the price of a card
\* routes.ts:598-604, priceOptions: the variants in the order they are
\* looked at.
priceOptions ==
    <<"holofoil", "1stEditionHolofoil", "unlimitedHolofoil",
      "reverseHolofoil", "normal">>

\* prices.<variant>?.market of a variant that is absent or has no market.
Undefined == -1

\* routes.ts:488-509, PokemonCard: the market price of each variant, or no
\* price data at all (card.tcgplayer?.prices undefined).
PokemonCards ==
    {NoMap} \cup [{priceOptions[k] : k \in DOMAIN priceOptions}
                    -> {Undefined} \cup (0..MaxMarket)]

\* The variant with the lowest defined market wins.
getCardPriceFirstDefined(card) ==
    IF card = NoMap THEN 0
    ELSE LET hits == {k \in DOMAIN priceOptions :
                        card[priceOptions[k]] # Undefined}
         IN IF hits = {} THEN 0
            ELSE card[priceOptions[CHOOSE k \in hits : \A j \in hits : k <= j]]

RECURSIVE find(_, _)
\* Array.prototype.find over priceOptions from index k on, with the
\* predicate price !== undefined && price > 0.
find(card, k) ==
    IF k > Len(priceOptions) THEN Undefined
    ELSE IF card[priceOptions[k]] # Undefined /\ card[priceOptions[k]] > 0
         THEN card[priceOptions[k]]
         ELSE find(card, k + 1)

\* routes.ts:588-606
getCardPrice(card) ==
    IF card = NoMap THEN 0
    ELSE LET validPrice == find(card, 1)
         IN IF validPrice = Undefined THEN 0 ELSE validPrice

\* routes.ts:282-292 with the card kept: the card arrives, getCardPrice
\* selects its price and cacheCard is awaited.
RefreshGetCardData(r) ==
    /\ request[r].pc = "getCard"
    /\ \E card \in PokemonCards :
          Reply(r, [request[r] EXCEPT !.pc = "cacheCard", !.body = card,
                                      !.value = getCardPrice(card)])
    /\ UNCHANGED <<isRunning, frame, dbVars, clock, cachedCards, scheduler, client>>

\* The refresh endpoint alone, over every card the upstream may return.
NextPrice ==
    \E r \in Requests :
        \/ \E id \in CardIds : RefreshRequest(r, id)
        \/ RefreshGetCardData(r) \/ RefreshCacheCard(r)
        \/ RefreshRcpDelete(r) \/ RefreshRcpInsert(r) \/ RefreshFails(r)

SpecPrice == InitApi /\ [][NextPrice]_vars

\* --------------------------------------------------------------- the clock
\* Six hours pass.
Tick ==
    /\ now < MaxTime
    /\ now' = now + 1
    /\ today' = dayOf(now')
    /\ UNCHANGED <<isRunning, frame, dbVars, apiVars, scheduler, client>>

\* The tracker while time passes.
NextDays == Next \/ Tick

SpecDays == Init /\ [][NextDays]_vars

\* ----------------------------------------------------------- the scheduler
\* priceTracker.ts:130-149: cron.schedule creates a task, which is scheduled
\* from then on, and scheduledTask is set to it, whatever it held before.
startPriceTracking ==
    /\ Len(cronTasks) < MaxStarts
    /\ cronTasks' = Append(cronTasks, "scheduled")
    /\ scheduledTask' = Len(cronTasks) + 1
    /\ UNCHANGED <<isRunning, frame, dbVars, clock, apiVars, client>>

\* priceTracker.ts:151-157: the task held, if any, is stopped and
\* scheduledTask is set to null.
stopPriceTracking ==
    /\ IF scheduledTask # 0
       THEN /\ cronTasks' = [cronTasks EXCEPT ![scheduledTask] = "stopped"]
            /\ scheduledTask' = 0
       ELSE UNCHANGED scheduler
    /\ UNCHANGED <<isRunning, frame, dbVars, clock, apiVars, client>>

\* The tracker with its scheduler switched on and off by the host.
NextScheduler == Next \/ startPriceTracking \/ stopPriceTracking

\* The module is loaded and startPriceTracking has not been called; at most
\* one holding exists.
InitScheduler ==
    /\ InitData
    /\ Cardinality(portfolioCards) <= 1
    /\ scheduledTask = 0
    /\ cronTasks = <<>>

SpecScheduler == InitScheduler /\ [][NextScheduler]_vars

\* ------------------------------------------------ refreshPrices, in the browser
\* part_000:115, the element of priceUpdates of a refresh that failed.
Null == -2

\* One step of refreshPrices to the locals c2.
ClientStep(c2) ==
    client' = c2

\* part_000:120-122, validUpdates: the settled refreshes that gave a price.
validUpdates(c) ==
    {id \in DOMAIN c.priceUpdates : c.priceUpdates[id] # Null}

\* The test that every card was refreshed left out: the holdings that got
\* a price are patched and their total is recorded.
AfterRefreshOfValidOnly(c) ==
    IF validUpdates(c) = {}
    THEN [c EXCEPT !.pc = "done", !.result = "returned"]
    ELSE [c EXCEPT !.pc = "patching", !.patches = validUpdates(c)]

\* part_000:120-134: every refresh has settled. Unless each holding got a
\* price the function throws; otherwise one PATCH per holding is sent and
\* all of them are awaited.
AfterRefresh(c) ==
    IF Cardinality(validUpdates(c)) # Cardinality(c.cards)
    THEN [c EXCEPT !.pc = "done", !.result = "thrown"]
    ELSE IF validUpdates(c) = {}
         THEN [c EXCEPT !.pc = "done", !.result = "returned"]
         ELSE [c EXCEPT !.pc = "patching", !.patches = validUpdates(c)]

RECURSIVE reduceTotal(_, _)
\* part_000:138-141: sum + card.quantity * update.price over validUpdates,
\* the card looked up by id in the cached holdings.
reduceTotal(ids, c) ==
    IF ids = {} THEN 0
    ELSE LET id == CHOOSE x \in ids : TRUE
             found == {h \in c.cards : h.id = id}
         IN (IF found = {} THEN 0
             ELSE (CHOOSE h \in found : TRUE).quantity * c.priceUpdates[id])
            + reduceTotal(ids \ {id}, c)

\* part_000:134-144: every PATCH has resolved; the total is computed and
\* POST /api/portfolio-value/record is awaited.
AfterPatches(c) ==
    [c EXCEPT !.pc = "recording",
              !.totalValue = reduceTotal(validUpdates(c), c)]

\* part_000:100-118: refreshPrices is called in the session of userId. With
\* no holding cached it returns; otherwise one POST /api/cards/:id/refresh
\* per holding is sent, all at once.
refreshPrices(userId) ==
    /\ client.pc = "idle"
    /\ LET held == getAllPortfolioCards(userId)
           c == [Client0 EXCEPT !.userId = userId, !.cards = held]
       IN ClientStep(IF held = {}
                     THEN [c EXCEPT !.pc = "done", !.result = "returned"]
                     ELSE [c EXCEPT !.pc = "refreshing",
                                    !.refreshes = {h.id : h \in held}])
    /\ UNCHANGED <<isRunning, frame, dbVars, clock, apiVars, scheduler>>

\* The locals once the refresh of holding id has settled with the element
\* x of priceUpdates: when it was the last one, Promise.all resolves.
RefreshSettled(c, id, x) ==
    LET d == [c EXCEPT !.refreshes = @ \ {id},
                       !.priceUpdates = MapSet(@, id, x)]
    IN IF d.refreshes = {} THEN AfterRefresh(d) ELSE d

\* routes.ts:279-307 and part_000:108-112: the refresh of the card of
\* holding id is answered: the cache row is upserted, today's rows of the
\* card in the price history are replaced, and the price is kept.
ClientRefreshDone(id) ==
    /\ client.pc = "refreshing" /\ id \in client.refreshes
    /\ \E price \in Prices :
          LET cardId == (CHOOSE h \in client.cards : h.id = id).cardId
          IN /\ cachedCards' = MapSet(cachedCards, cardId, toFixed2(price))
             /\ cardPriceHistory' =
                   Insert(DeleteWhere(cardPriceHistory,
                                      {x \in DOMAIN cardPriceHistory :
                                         x.cardId = cardId /\ x.recordedAt = today}),
                          [cardId |-> cardId, price |-> toFixed2(price),
                           recordedAt |-> today])
             /\ ClientStep(RefreshSettled(client, id, price))
    /\ UNCHANGED <<isRunning, frame, portfolioCards, portfolioValueHistory,
                   rowUpdates, clock, request, scheduler>>

\* routes.ts:308-311 and part_000:113-116: the refresh of holding id fails
\* (the request rejects, or it is answered 500 and no price is found in the
\* answer): its element of priceUpdates is null.
ClientRefreshFails(id) ==
    /\ client.pc = "refreshing" /\ id \in client.refreshes
    /\ ClientStep(RefreshSettled(client, id, Null))
    /\ UNCHANGED <<isRunning, frame, dbVars, clock, apiVars, scheduler>>

\* The locals once the PATCH of holding id has resolved: when it was the
\* last one awaited, Promise.all resolves.
PatchSettled(c, id) ==
    LET d == [c EXCEPT !.patches = @ \ {id}]
    IN IF c.pc = "patching" /\ d.patches = {} THEN AfterPatches(d) ELSE d

\* routes.ts:343-360, storage.ts:125-132 and part_000:130-134: the PATCH
\* of holding id, carrying its fresh price, is applied to the rows of that
\* id and user.
ClientPatchDone(id) ==
    /\ id \in client.patches
    /\ portfolioCards' =
          { IF h.id = id /\ h.userId = client.userId
            THEN [h EXCEPT !.currentPrice = toFixed2(client.priceUpdates[id])]
            ELSE h : h \in portfolioCards }
    /\ ClientStep(PatchSettled(client, id))
    /\ UNCHANGED <<isRunning, frame, cardPriceHistory, portfolioValueHistory,
                   rowUpdates, clock, apiVars, scheduler>>

\* routes.ts:361-364 and part_000:134: the PATCH of holding id fails. When
\* apiRequest throws, Promise.all rejects and refreshPrices throws, the
\* other PATCH requests staying in flight; when it returns the answer as it
\* is, the failure goes unnoticed.
ClientPatchFails(id, thrown) ==
    /\ id \in client.patches
    /\ ClientStep(IF thrown /\ client.pc = "patching"
                  THEN [client EXCEPT !.patches = @ \ {id}, !.pc = "done",
                                      !.result = "thrown"]
                  ELSE PatchSettled(client, id))
    /\ UNCHANGED <<isRunning, frame, dbVars, clock, apiVars, scheduler>>

\* routes.ts:409-436, storage.ts:177-198 and part_000:144-150: the total
\* sent is recorded in place of today's rows of the user, and refreshPrices
\* returns.
ClientRecordDone ==
    /\ client.pc = "recording"
    /\ portfolioValueHistory' =
          Insert(DeleteWhere(portfolioValueHistory,
                             {x \in DOMAIN portfolioValueHistory :
                                x.userId = client.userId /\ x.recordedAt = today}),
                 [userId |-> client.userId,
                  totalValue |-> toFixed2(client.totalValue),
                  recordedAt |-> today])
    /\ ClientStep([client EXCEPT !.pc = "done", !.result = "returned"])
    /\ UNCHANGED <<isRunning, frame, portfolioCards, cardPriceHistory,
                   rowUpdates, clock, apiVars, scheduler>>

\* routes.ts:437-440 and part_000:144: the recording fails and nothing is
\* written.
ClientRecordFails ==
    /\ client.pc = "recording"
    /\ \E thrown \in BOOLEAN :
          ClientStep([client EXCEPT !.pc = "done",
                                    !.result = IF thrown THEN "thrown"
                                               ELSE "returned"])
    /\ UNCHANGED <<isRunning, frame, dbVars, clock, apiVars, scheduler>>

\* The browser of one user and the endpoints it calls.
NextClient ==
    \/ \E userId \in UserIds : refreshPrices(userId)
    \/ \E id \in HoldingIds :
          \/ ClientRefreshDone(id) \/ ClientRefreshFails(id)
          \/ ClientPatchDone(id)
          \/ \E thrown \in BOOLEAN : ClientPatchFails(id, thrown)
    \/ ClientRecordDone \/ ClientRecordFails

SpecClient == Init /\ [][NextClient]_vars

\* Any step of call p between two awaits.
CallStep(p) ==
    \/ List(p) \/ ListFails(p)
    \/ Fetch(p) \/ FetchFails(p)
    \/ RcpDelete(p) \/ RcpInsert(p) \/ RecordCardPriceFails(p)
    \/ Delay(p)
    \/ GetUsers(p) \/ GetUsersFails(p)
    \/ GetCards(p) \/ GetCardsFails(p)
    \/ RpvDelete(p) \/ RpvInsert(p) \/ RecordPortfolioValueFails(p)
    \/ RetryCall(p)

\* Any row update in flight settles.
RowUpdateSettles ==
    \E r \in rowUpdates : RowUpdate(r) \/ RowUpdateFails(r)

\* The event loop with every awaited promise settling in the end: a timer
\* fires, a query or an upstream request resolves or rejects. Nothing makes
\* a trigger fire.
FairSpec ==
    /\ Spec
    /\ \A p \in Calls : WF_vars(CallStep(p))
    /\ WF_vars(RowUpdateSettles)

\* ================================================================ claims
Running(p) == frame[p].pc \notin {"idle", "done"}
FetchPcs == {"fetch", "rcpDelete", "rcpInsert", "delay"}
ValuationPcs == {"users", "cards", "batch", "rpvDelete", "rpvInsert"}
Range(s) == {s[k] : k \in DOMAIN s}

\* C1: in every reachable state at most one invocation is past the guard
\* and not yet returned, whichever entry points fired and in whatever order.
C1_AtMostOneCycleRunning ==
    \A p, q \in Calls : Running(p) /\ Running(q) => p = q

\* A cycle is in its fetch loop and a later trigger has already returned.
C1_Witness ==
    \E p, q \in Calls : frame[p].pc = "fetch" /\ frame[q].skipped

\* C2: when the retry delay of a failed attempt ends and attempts remain, a
\* new attempt starts from step 1: the call goes on to list the card ids
\* again, with the attempt number raised by one.
C2_RetryStartsNewAttempt ==
    [][\A p \in Calls :
         frame[p].pc = "retryWait" /\ frame[p].attempt < MAX_RETRIES
         /\ Len(frame[p].failedCards) > 0 /\ frame'[p] # frame[p]
         => frame'[p].pc = "list" /\ frame'[p].attempt = frame[p].attempt + 1]_vars

\* C3: a cycle over a non-empty card list whose attempts all had a failed
\* card returns false having made exactly MAX_RETRIES fetch passes.
C3_FailureAfterMaxPasses ==
    [][\A p \in Calls :
         /\ Running(p) /\ frame'[p].pc = "done"
         /\ \/ frame[p].pc = "retryWait" /\ Len(frame[p].failedCards) > 0
            \/ frame[p].pc \in FetchPcs /\ frame'[p].result = "false"
         => /\ frame'[p].result = "false"
            /\ frame[p].passes + (IF frame[p].pc \in FetchPcs THEN 1 ELSE 0)
                 = MAX_RETRIES]_vars

\* C4: a trigger that fires while a cycle is Running returns false at once:
\* it never lists or fetches, the flag stays set, no table and no row update
\* in flight changes, and the locals of the cycle in flight are untouched.
C4_DroppedTriggerHasNoEffect ==
    [][\A q \in Calls :
         frame[q].pc = "idle" /\ frame'[q].pc # "idle"
         /\ (\E p \in Calls : Running(p))
         => /\ frame'[q] = [Returned(Frame0, "false") EXCEPT !.skipped = TRUE]
            /\ isRunning /\ isRunning'
            /\ UNCHANGED dbVars
            /\ \A p \in Calls \ {q} : frame'[p] = frame[p]]_vars

\* A cycle awaits a statement of recordCardPrice and a later trigger has
\* returned false.
C4_Witness ==
    \E p, q \in Calls :
        /\ frame[p].pc \in {"rcpDelete", "rcpInsert"}
        /\ frame[q].skipped /\ frame[q].result = "false"

\* C5: a dropped trigger is not queued: the call made while a cycle is
\* Running returns in that very step, and a call that has returned never
\* runs again, also after the cycle in flight has ended.
C5_DroppedTriggerNotQueued ==
    [][\A q \in Calls :
         /\ frame[q].pc = "idle" /\ frame'[q].pc # "idle"
            /\ (\E p \in Calls : Running(p))
            => frame'[q].pc = "done"
         /\ frame[q].pc = "done" => frame'[q] = frame[q]]_vars

\* A trigger was dropped during a cycle that has ended with success since,
\* and nothing is running.
C5_Witness ==
    \E p, q \in Calls :
        /\ frame[p].pc = "done" /\ frame[p].result = "true" /\ ~frame[p].skipped
        /\ frame[q].skipped
        /\ portfolioValueHistory # EmptyBag
        /\ ~isRunning /\ rowUpdates = {}

\* C6: the flag is set in every state in which a cycle has started and not
\* yet returned, the retry wait included; a trigger fired during a retry
\* wait is therefore dropped.
C6_FlagHeldUntilReturn ==
    /\ [](\A p \in Calls : Running(p) => isRunning)
    /\ [][\A q \in Calls :
            frame[q].pc = "idle" /\ frame'[q].pc # "idle"
            /\ (\E p \in Calls : frame[p].pc = "retryWait")
            => frame'[q].skipped /\ frame'[q].result = "false"]_vars

\* A cycle is in its retry wait with the flag set, and a trigger fired
\* after it started has been dropped.
C6_Witness ==
    \E p, q \in Calls :
        /\ frame[p].pc = "retryWait" /\ isRunning
        /\ frame[q].skipped /\ frame[q].result = "false"

\* C7: once the first attempt has fetched and recorded every card without
\* a failure, the cycle performs no retry wait and returns true.
C7_CleanFirstAttemptSucceeds ==
    [][\A p \in Calls :
         /\ Running(p) /\ frame[p].attempt = 1 /\ frame[p].passes = 1
         /\ frame[p].failedCards = <<>>
         => /\ frame'[p].pc # "retryWait"
            /\ frame'[p].pc = "done" => frame'[p].result = "true"]_vars

\* C8: when a fetch pass ends with exactly one failed card among the listed
\* ones, the attempt has failed whatever the number of cards priced: the
\* call does not start the valuation; it starts the retry wait when attempts
\* remain, and returns false when none does.
C8_OneFailureFailsAttempt ==
    [][\A p \in Calls :
         /\ frame[p].pc \in FetchPcs
         /\ frame'[p].pc \notin FetchPcs
         /\ Len(frame[p].failedCards)
              + (IF frame[p].pc = "delay" THEN 0 ELSE 1) = 1
         => /\ frame'[p].pc \notin ValuationPcs
            /\ IF frame[p].attempt < MAX_RETRIES
               THEN /\ frame'[p].pc = "retryWait"
                    /\ Len(frame'[p].failedCards) = 1
                    /\ frame'[p].passes = frame[p].passes + 1
                    /\ isRunning'
               ELSE frame'[p].pc = "done" /\ frame'[p].result = "false"
            /\ UNCHANGED <<portfolioCards, portfolioValueHistory, rowUpdates>>]_vars

\* Two cards were listed, one was priced and one failed, and the call is in
\* its retry wait.
C8_Witness ==
    \E p \in Calls :
        /\ frame[p].pc = "retryWait"
        /\ Len(frame[p].uniqueCardIds) = 2
        /\ Len(frame[p].failedCards) = 1
        /\ Cardinality(DOMAIN frame[p].priceMap) = 1

\* The card ids a pass has dealt with: all before the current one, and the
\* current one once its outcome is known.
Processed(f) ==
    IF f.pc \in {"fetch", "rcpDelete", "rcpInsert"}
    THEN {f.uniqueCardIds[k] : k \in 1..(f.i - 1)}
    ELSE IF f.pc = "delay" THEN {f.uniqueCardIds[k] : k \in 1..f.i}
    ELSE Range(f.uniqueCardIds)

\* C9: a failed card does not end the pass: the fetches made in an attempt
\* are the listed ids, each once and in order, up to the current card, and
\* all of them once the pass is over; every card dealt with is either
\* priced or in the failed list, once.
C9_EveryCardFetchedOnce ==
    \A p \in Calls :
        LET f == frame[p] IN
        Running(p) /\ f.pc # "list" =>
            /\ f.fetchLog = SubSeq(f.uniqueCardIds, 1,
                    IF f.pc = "fetch" THEN f.i - 1
                    ELSE IF f.pc \in FetchPcs THEN f.i
                    ELSE Len(f.uniqueCardIds))
            /\ Range(f.failedCards) \cup DOMAIN f.priceMap = Processed(f)
            /\ Range(f.failedCards) \cap DOMAIN f.priceMap = {}
            /\ Cardinality(Range(f.failedCards)) = Len(f.failedCards)

\* The first of two listed cards failed and the second was still fetched
\* and priced.
C9_Witness ==
    \E p \in Calls :
        /\ frame[p].pc = "delay" /\ frame[p].i = 2
        /\ frame[p].failedCards = <<frame[p].uniqueCardIds[1]>>
        /\ DOMAIN frame[p].priceMap = {frame[p].uniqueCardIds[2]}
        /\ frame[p].fetchLog = frame[p].uniqueCardIds

\* C10: the valuation is only reached with an empty failed list: in every
\* state of the valuation phase each listed card is in the price map and
\* the row of today holding its price is in the card price history; and a
\* step that issues row updates or writes a value record is a step of a
\* call in that phase.
C10_ValuationOnlyAfterCleanPass ==
    /\ [](\A p \in Calls :
            frame[p].pc \in ValuationPcs =>
                /\ frame[p].failedCards = <<>>
                /\ DOMAIN frame[p].priceMap = Range(frame[p].uniqueCardIds)
                /\ \A c \in DOMAIN frame[p].priceMap :
                      BagIn([cardId |-> c,
                             price |-> toFixed2(frame[p].priceMap[c]),
                             recordedAt |-> today], cardPriceHistory))
    /\ [][(portfolioValueHistory' # portfolioValueHistory
             \/ rowUpdates' \ rowUpdates # {})
           => \E p \in Calls :
                /\ frame[p].pc \in ValuationPcs
                /\ frame[p].failedCards = <<>>
                /\ DOMAIN frame[p].priceMap = Range(frame[p].uniqueCardIds)]_vars

\* A value record is about to be inserted by a call that priced two cards.
C10_Witness ==
    \E p \in Calls :
        /\ frame[p].pc = "rpvInsert"
        /\ Cardinality(DOMAIN frame[p].priceMap) = 2
        /\ \E h \in portfolioCards : h.currentPrice # 0

\* C11: when no holding exists, the step in which the listing of the card
\* ids resolves ends the cycle: the call, in its first attempt and having
\* fetched nothing, returns true, the flag is released, and no table and no
\* row update in flight changes.
C11_EmptyListingSucceeds ==
    [][\A p \in Calls :
         /\ frame[p].pc = "list" /\ portfolioCards = {}
         /\ frame'[p] # frame[p] /\ frame'[p].pc # "retryWait"
         => /\ frame[p].attempt = 1 /\ frame[p].passes = 0
            /\ frame[p].fetchLog = <<>>
            /\ frame'[p] = Returned(Frame0, "true")
            /\ ~isRunning'
            /\ UNCHANGED dbVars]_vars

\* With no holding, a cycle has returned true, nothing is running and both
\* history tables are empty.
C11_Witness ==
    /\ portfolioCards = {}
    /\ \E p \in Calls : frame[p].pc = "done" /\ frame[p].result = "true"
    /\ ~isRunning
    /\ cardPriceHistory = EmptyBag /\ portfolioValueHistory = EmptyBag

\* C12: a call in its valuation phase (reached only with an empty failed
\* list) stays in that phase until it returns, and it returns true: no step
\* of the phase, failing or not, starts a retry wait or returns false.
C12_ValuationNeverFailsCycle ==
    [][\A p \in Calls :
         frame[p].pc \in ValuationPcs
         => /\ frame'[p].pc \in ValuationPcs \cup {"done"}
            /\ frame'[p].pc = "done" => frame'[p].result = "true"]_vars

UserPcs == {"cards", "batch", "rpvDelete", "rpvInsert"}

\* C13: the per-user loop visits every user with holdings, whatever fails:
\* the listed users are exactly the users with holdings, each once; every
\* step of a call that is valuing a user, a failure included, either goes on
\* with that user, or moves to the next listed user with the list and the
\* price map unchanged, or, after the last user, returns true.
C13_UserFailureDoesNotBlockOthers ==
    /\ [](\A p \in Calls :
            frame[p].pc \in UserPcs =>
                /\ Range(frame[p].users) = {h.userId : h \in portfolioCards}
                /\ Cardinality(Range(frame[p].users)) = Len(frame[p].users)
                /\ frame[p].u \in 1..Len(frame[p].users))
    /\ [][\A p \in Calls :
            frame[p].pc \in UserPcs /\ frame'[p] # frame[p] =>
                LET f == frame[p]
                    g == frame'[p]
                IN \/ /\ g.pc \in {"batch", "rpvDelete", "rpvInsert"}
                      /\ g.u = f.u /\ g.users = f.users /\ g.priceMap = f.priceMap
                   \/ /\ f.u < Len(f.users)
                      /\ g = [f EXCEPT !.pc = "cards", !.u = f.u + 1, !.totalValue = 0]
                   \/ /\ f.u = Len(f.users)
                      /\ g = Returned(Frame0, "true")]_vars

\* The first listed user has no value record, its valuation having failed,
\* and the second user's holding has its new price and its value record is
\* about to be inserted.
C13_Witness ==
    \E p \in Calls :
        /\ frame[p].pc = "rpvInsert" /\ frame[p].u = 2
        /\ ~ \E r \in DOMAIN portfolioValueHistory : r.userId = frame[p].users[1]
        /\ \E h \in portfolioCards :
              h.userId = frame[p].users[2] /\ h.currentPrice = 1

\* C14: the promise of a call is pending until the call returns and then
\* holds a boolean, never a rejection, whichever adapter or persistence
\* statements failed; a call that ends out of its retry wait holds false,
\* and so does a failure caught in the last attempt.
C14_PromiseResolvesToBoolean ==
    /\ [](\A p \in Calls :
            /\ frame[p].pc = "done" <=> frame[p].result \in {"true", "false"}
            /\ frame[p].pc # "done" <=> frame[p].result = "pending"
            /\ Running(p) =>
                  Throw([frame[p] EXCEPT !.attempt = MAX_RETRIES])
                     = Returned(Frame0, "false"))
    /\ [][\A p \in Calls :
            frame[p].pc = "retryWait" /\ frame'[p].pc = "done"
            => frame'[p].result = "false"]_vars

\* A cycle recorded a price and then failed: a price is recorded, nothing is
\* running any more, and no call has returned true.
C14_Witness ==
    /\ \E p \in Calls : frame[p].pc = "done" /\ frame[p].result = "false"
    /\ \A p \in Calls : ~Running(p) /\ frame[p].result # "true"
    /\ cardPriceHistory # EmptyBag

\* C15: while a call waits for its retry after a failed pass, the row of
\* today of every card it priced in that pass is in the card price history
\* with the recorded price; and neither the step that marks the attempt
\* failed nor the step that ends the cycle changes the card price history.
C15_PartialProgressKept ==
    /\ [](\A p \in Calls :
            frame[p].pc = "retryWait" =>
                \A c \in DOMAIN frame[p].priceMap :
                    BagIn([cardId |-> c,
                           price |-> toFixed2(frame[p].priceMap[c]),
                           recordedAt |-> today], cardPriceHistory))
    /\ [][\A p \in Calls :
            \/ frame[p].pc # "retryWait" /\ frame'[p].pc = "retryWait"
            \/ frame[p].pc = "retryWait" /\ frame'[p].pc = "done"
            => UNCHANGED cardPriceHistory]_vars

\* Both cards are held; every cycle has ended, none with success; the card
\* price history holds a row of c1 and none of c2.
C15_Witness ==
    /\ portfolioCards = SeedHoldings
    /\ \A p \in Calls : frame[p].pc = "done" /\ frame[p].result = "false"
    /\ \E r \in DOMAIN cardPriceHistory : r.cardId = "c1"
    /\ ~ \E r \in DOMAIN cardPriceHistory : r.cardId = "c2"

\* C17: a trigger that fires while the flag is clear is not dropped: the
\* call sets the flag and awaits the listing of the card ids with attempt 1,
\* no pass made, an empty price map, an empty failed list and an empty fetch
\* log, whatever the cycles before it did.
C17_IdleTriggerStartsFreshCycle ==
    [][\A q \in Calls :
         frame[q].pc = "idle" /\ frame'[q].pc # "idle" /\ ~isRunning
         => /\ frame'[q] = [Frame0 EXCEPT !.pc = "list", !.attempt = 1]
            /\ frame'[q].priceMap = NoMap /\ frame'[q].failedCards = <<>>
            /\ isRunning'
            /\ UNCHANGED dbVars]_vars

\* A cycle that priced a card has failed and returned, and a later trigger
\* has started a cycle that awaits its listing.
C17_Witness ==
    \E p, q \in Calls :
        /\ frame[q].pc = "done" /\ frame[q].result = "false"
        /\ cardPriceHistory # EmptyBag
        /\ frame[p].pc = "list" /\ frame[p].attempt = 1 /\ isRunning

\* C20: with the writes of a key made one after the other, a write that has
\* completed leaves exactly one row of that key and day, holding the value
\* just written, whatever was written for the key earlier the same day: for
\* recordCardPrice the card and its price, for recordPortfolioValue the user
\* and the total.
C20_SecondWriteReplacesFirst ==
    [][\A p \in Calls :
         /\ frame[p].pc = "rcpInsert" /\ frame'[p].pc = "delay" =>
               LET c == frame[p].uniqueCardIds[frame[p].i]
                   row == [cardId |-> c,
                           price |-> toFixed2(frame[p].currentPrice),
                           recordedAt |-> today]
               IN /\ {r \in DOMAIN cardPriceHistory' :
                         r.cardId = c /\ r.recordedAt = today} = {row}
                  /\ CopiesIn(row, cardPriceHistory') = 1
         /\ frame[p].pc = "rpvInsert"
            /\ portfolioValueHistory' # portfolioValueHistory =>
               LET user == frame[p].users[frame[p].u]
                   row == [userId |-> user,
                           totalValue |-> toFixed2(frame[p].totalValue),
                           recordedAt |-> today]
               IN /\ {r \in DOMAIN portfolioValueHistory' :
                         r.userId = user /\ r.recordedAt = today} = {row}
                  /\ CopiesIn(row, portfolioValueHistory') = 1]_vars

\* An earlier cycle recorded the price 1 of c1 and wrote it to a holding; a
\* later cycle of the same day has recorded the price 0 of c1, and the only
\* row of c1 holds 0.
C20_Witness ==
    \E p \in Calls :
        /\ frame[p].pc = "delay"
        /\ frame[p].uniqueCardIds[frame[p].i] = "c1"
        /\ frame[p].currentPrice = 0
        /\ \E h \in portfolioCards : h.cardId = "c1" /\ h.currentPrice = 1
        /\ \A r \in DOMAIN cardPriceHistory : r.cardId = "c1" => r.price = 0
        /\ CopiesIn([cardId |-> "c1", price |-> 0, recordedAt |-> today],
                    cardPriceHistory) = 1

\* C16: every call that has started a cycle returns in the end, and the
\* flag is clear in the end; the flag is clear in every state in which no
\* call is between its start and its return, so a cycle that has returned,
\* with true or with false, never leaves it set.
C16_CycleEndsInIdle ==
    /\ \A p \in Calls : Running(p) ~> (frame[p].pc = "done" /\ ~isRunning)
    /\ []((\A p \in Calls : ~Running(p)) => ~isRunning)
    /\ [][\A p \in Calls :
            Running(p) /\ frame'[p].pc = "done" => ~isRunning']_vars

\* A cycle that wrote the value records of both users has returned true;
\* no call is running, no row update is in flight and the flag is clear.
C16_Witness ==
    /\ \E p \in Calls : frame[p].pc = "done" /\ frame[p].result = "true"
    /\ \A u \in UserIds : \E r \in DOMAIN portfolioValueHistory : r.userId = u
    /\ \A p \in Calls : ~Running(p)
    /\ rowUpdates = {} /\ ~isRunning

\* C18: the card price history never holds two rows of one card stamped
\* the same day, whatever the interleaving of the recordCardPrice calls of
\* the update cycle and of the refresh endpoint.
C18_OneCardPriceRecordPerDay ==
    \A x \in DOMAIN cardPriceHistory :
        /\ CopiesIn(x, cardPriceHistory) = 1
        /\ \A y \in DOMAIN cardPriceHistory :
              y.cardId = x.cardId /\ y.recordedAt = x.recordedAt => y = x

\* C19: the portfolio value history never holds two rows of one user
\* stamped the same day, whatever the interleaving of the
\* recordPortfolioValue calls of the update cycle and of the record
\* endpoint.
C19_OnePortfolioValueRecordPerDay ==
    \A x \in DOMAIN portfolioValueHistory :
        /\ CopiesIn(x, portfolioValueHistory) = 1
        /\ \A y \in DOMAIN portfolioValueHistory :
              y.userId = x.userId /\ y.recordedAt = x.recordedAt => y = x

\* The quantity user holds of card c, and the total of a user under the
\* prices m, card by card.
QuantityHeld(user, c) ==
    LET hs == {h \in portfolioCards : h.userId = user /\ h.cardId = c}
    IN IF hs = {} THEN 0 ELSE (CHOOSE h \in hs : TRUE).quantity

RECURSIVE TotalByCard(_, _, _)
TotalByCard(user, cs, m) ==
    IF cs = {} THEN 0
    ELSE LET c == CHOOSE x \in cs : TRUE
         IN m[c] * QuantityHeld(user, c) + TotalByCard(user, cs \ {c}, m)

\* C23: when the holdings of a user arrive, the total kept for the user is
\* the sum of PriceMap[cardId] * quantity over the user's holdings whose
\* card is in the map, and the row updates issued are one per such holding,
\* with its id, the user and the price to two decimals; the value record
\* inserted for the user holds that total to two decimals.
C23_TotalAndUpdatesOfUser ==
    [][\A p \in Calls :
         LET f == frame[p]
             user == f.users[f.u]
             priced == {h \in portfolioCards :
                          h.userId = user /\ h.cardId \in DOMAIN f.priceMap}
         IN /\ f.pc = "cards" /\ frame'[p].pc \in {"batch", "rpvDelete"} =>
                 /\ frame'[p].totalValue
                      = TotalByCard(user, DOMAIN f.priceMap, f.priceMap)
                 /\ rowUpdates' \ rowUpdates
                      = {[owner |-> p, id |-> h.id, userId |-> user,
                          currentPrice |-> toFixed2(f.priceMap[h.cardId])] :
                            h \in priced}
                 /\ Cardinality(rowUpdates' \ rowUpdates) = Cardinality(priced)
            /\ f.pc = "rpvInsert"
               /\ portfolioValueHistory' # portfolioValueHistory =>
                 portfolioValueHistory'
                   = Insert(portfolioValueHistory,
                            [userId |-> user,
                             totalValue |->
                               toFixed2(TotalByCard(user, DOMAIN f.priceMap,
                                                    f.priceMap)),
                             recordedAt |-> today])]_vars

\* User u1 holds two of c1 and one of c2, both priced 1: the total kept is
\* 3 and two row updates at price 1 are in flight.
C23_Witness ==
    \E p \in Calls :
        /\ frame[p].pc = "batch" /\ frame[p].users[frame[p].u] = "u1"
        /\ frame[p].priceMap = [c \in CardIds |-> 1]
        /\ frame[p].totalValue = 3
        /\ {r.id : r \in {x \in rowUpdates : x.owner = p}} = {"h1", "h2"}
        /\ \A r \in rowUpdates : r.owner = p => r.currentPrice = 1

\* C27: a cycle that fails writes no holding and no value record. A call
\* that starts its retry wait or returns false does so from outside the
\* per-user loop; a call that has entered the per-user loop returns true;
\* a row update is issued and a value record is written only by a call in
\* the per-user loop, and a holding changes only by a row update so issued.
C27_FailedCycleLeavesHoldings ==
    /\ [][\A p \in Calls :
            /\ Running(p) /\ frame'[p] # frame[p]
               /\ \/ frame'[p].pc = "retryWait"
                  \/ frame'[p].pc = "done" /\ frame'[p].result = "false"
               => /\ frame[p].pc \notin UserPcs
                  /\ UNCHANGED <<portfolioCards, portfolioValueHistory, rowUpdates>>
            /\ frame[p].pc \in UserPcs /\ frame'[p].pc = "done"
               => frame'[p].result = "true"]_vars
    /\ [][/\ (rowUpdates' \ rowUpdates # {}
              \/ portfolioValueHistory' # portfolioValueHistory)
             => \E p \in Calls : frame[p].pc \in UserPcs
          /\ portfolioCards' # portfolioCards
             => rowUpdates \ rowUpdates' # {}]_vars

\* A cycle recorded the price 1 of a card and then failed; no cycle has
\* succeeded; every holding still has its price 0 and no value record
\* exists.
C27_Witness ==
    /\ \E p \in Calls : frame[p].pc = "done" /\ frame[p].result = "false"
    /\ \A p \in Calls : ~Running(p) /\ frame[p].result # "true"
    /\ \E r \in DOMAIN cardPriceHistory : r.price = 1
    /\ portfolioCards # {}
    /\ \A h \in portfolioCards : h.currentPrice = 0
    /\ portfolioValueHistory = EmptyBag

\* C29: a step that changes the holdings keeps every holding, with its id,
\* owner, card, quantity and purchase price; a holding whose current price
\* changes is the one named, by id and user, by a row update in flight
\* that the step settles, and it takes the price of that update. A row
\* update that fails changes no holding.
C29_BatchUpdateTouchesOnlyPrice ==
    [][/\ portfolioCards' # portfolioCards =>
            /\ {[h EXCEPT !.currentPrice = 0] : h \in portfolioCards'}
                 = {[h EXCEPT !.currentPrice = 0] : h \in portfolioCards}
            /\ Cardinality(portfolioCards') = Cardinality(portfolioCards)
            /\ \A h \in portfolioCards' \ portfolioCards :
                  \E r \in rowUpdates \ rowUpdates' :
                      /\ r.id = h.id /\ r.userId = h.userId
                      /\ h.currentPrice = r.currentPrice
       /\ \A p \in Calls :
             frame[p].pc = "batch" /\ frame'[p].pc \notin {"batch", "rpvDelete"}
             => UNCHANGED portfolioCards]_vars

\* Both updates of the batch of u1 carried the price 1; the one of h1 was
\* applied, the one of h2 failed, and the call has moved to its next user.
C29_Witness ==
    \E p \in Calls :
        /\ frame[p].pc = "cards" /\ frame[p].u = 2 /\ frame[p].users[1] = "u1"
        /\ frame[p].priceMap = [c \in CardIds |-> 1]
        /\ rowUpdates = {}
        /\ [id |-> "h1", userId |-> "u1", cardId |-> "c1", quantity |-> 2,
            purchasePrice |-> 3, currentPrice |-> 1] \in portfolioCards
        /\ [id |-> "h2", userId |-> "u1", cardId |-> "c2", quantity |-> 1,
            purchasePrice |-> 3, currentPrice |-> 0] \in portfolioCards

\* C30: at most one fetch of the tracker is in flight; a call starts a
\* fetch either of its first card, out of the listing, or of the card after
\* the current one, and then the current card is settled: the call comes out
\* of the inter-request delay with the card in the price map and its row of
\* today in the card price history, or the step records the card as failed.
C30_FetchesAreSequential ==
    /\ [](\A p, q \in Calls :
            frame[p].pc = "fetch" /\ frame[q].pc = "fetch" => p = q)
    /\ [][\A p \in Calls :
            frame'[p].pc = "fetch" /\ frame'[p] # frame[p] =>
               LET f == frame[p]
                   g == frame'[p]
               IN \/ f.pc = "list" /\ g.i = 1
                  \/ /\ f.pc \in FetchPcs /\ g.i = f.i + 1
                     /\ g.uniqueCardIds = f.uniqueCardIds
                     /\ LET c == f.uniqueCardIds[f.i]
                        IN \/ /\ f.pc = "delay"
                              /\ c \in DOMAIN f.priceMap
                              /\ BagIn([cardId |-> c,
                                        price |-> toFixed2(f.priceMap[c]),
                                        recordedAt |-> today], cardPriceHistory)
                           \/ /\ f.pc \in {"fetch", "rcpDelete", "rcpInsert"}
                              /\ g.failedCards = Append(f.failedCards, c)]_vars

\* The second fetch of a pass is in flight, the first card having been
\* recorded.
C30_Witness ==
    \E p \in Calls :
        /\ frame[p].pc = "fetch" /\ frame[p].i = 2
        /\ DOMAIN frame[p].priceMap = {frame[p].uniqueCardIds[1]}
        /\ \E r \in DOMAIN cardPriceHistory : r.cardId = frame[p].uniqueCardIds[1]

\* C26: a card whose fresh price the cycle has just recorded has a cache
\* entry holding that price, and so has a card whose refresh request has
\* recorded its price; no step removes a cache entry.
C26_CacheFollowsEveryFetch ==
    /\ [](\A p \in Calls :
            frame[p].pc = "delay" =>
                LET c == frame[p].uniqueCardIds[frame[p].i]
                IN /\ c \in DOMAIN cachedCards
                   /\ cachedCards[c] = toFixed2(frame[p].currentPrice))
    /\ [][/\ DOMAIN cachedCards \subseteq DOMAIN cachedCards'
          /\ \A r \in Requests :
                request[r].pc = "cacheCard" /\ request'[r].pc = "rcpDelete"
                => cachedCards'[request[r].key] = toFixed2(request[r].value)]_vars

\* C25: an update or a delete that names a holding which does not exist or
\* belongs to another user, and whose statement does not reject, changes no
\* holding and is answered 404.
C25_ForeignHoldingNotFound ==
    [][\A r \in Requests :
         /\ request[r].pc \in {"update", "delete"}
         /\ request'[r].pc = "done" /\ request'[r].status # 500
         /\ ~ \E h \in portfolioCards :
                h.id = request[r].id /\ h.userId = request[r].key
         => /\ UNCHANGED portfolioCards
            /\ request'[r].status = 404]_vars

\* C28: every holding has a quantity of at least 1, whatever holdings were
\* created or edited through the portfolio routes and whatever row updates
\* the tracker applied.
C28_QuantityAtLeastOne ==
    \A h \in portfolioCards : h.quantity \in Nat /\ h.quantity >= 1

\* A PATCH carrying the quantity 1 has been applied to the holding h1, whose
\* quantity was 2.
C28_Witness ==
    \E r \in Requests :
        /\ request[r].route = "patch" /\ request[r].status = 200
        /\ request[r].id = "h1" /\ "quantity" \in DOMAIN request[r].body
        /\ \E h \in portfolioCards : h.id = "h1" /\ h.quantity = 1

\* C24: when the holdings of a user arrive, no row update is issued for a
\* holding whose card is not in the price map, and the total kept is the
\* total of the other holdings alone; the current price of a holding changes
\* only by a row update naming it or by a PATCH naming it, so the holding
\* left out keeps its price through the valuation.
C24_UnpricedHoldingUntouched ==
    [][/\ \A p \in Calls :
            frame[p].pc = "cards" /\ frame'[p].pc \in {"batch", "rpvDelete"} =>
               LET f == frame[p]
                   held == getAllPortfolioCards(f.users[f.u])
                   missing == {h \in held : h.cardId \notin DOMAIN f.priceMap}
               IN /\ \A h \in missing :
                        ~ \E x \in rowUpdates' \ rowUpdates : x.id = h.id
                  /\ frame'[p].totalValue = SumOver(held \ missing, f.priceMap)
       /\ \A h \in portfolioCards :
            (\E g \in portfolioCards' :
                g.id = h.id /\ g.currentPrice # h.currentPrice)
            => \/ \E x \in rowUpdates \ rowUpdates' : x.id = h.id
               \/ \E r \in Requests :
                     request[r].pc = "update" /\ request[r].id = h.id]_vars

\* A holding of card c2 was created at price 1 after the cycle had listed
\* its cards; the cycle, which priced c1 alone, is recording the value of
\* the owner: the new holding has no row update and still has its price 1.
C24_Witness ==
    \E p \in Calls :
        /\ frame[p].pc = "rpvInsert"
        /\ DOMAIN frame[p].priceMap = {"c1"}
        /\ \E h \in portfolioCards :
              /\ h.userId = frame[p].users[frame[p].u]
              /\ h.cardId = "c2" /\ h.currentPrice = 1
              /\ ~ \E x \in rowUpdates : x.id = h.id
        /\ \E h \in portfolioCards :
              h.userId = frame[p].users[frame[p].u] /\ h.cardId = "c1"

\* The claim's order of the variants: v comes before w.
Before(v, w) ==
    <<v, w>> \in {<<"holofoil", "1stEditionHolofoil">>,
                  <<"holofoil", "unlimitedHolofoil">>,
                  <<"holofoil", "reverseHolofoil">>,
                  <<"holofoil", "normal">>,
                  <<"1stEditionHolofoil", "unlimitedHolofoil">>,
                  <<"1stEditionHolofoil", "reverseHolofoil">>,
                  <<"1stEditionHolofoil", "normal">>,
                  <<"unlimitedHolofoil", "reverseHolofoil">>,
                  <<"unlimitedHolofoil", "normal">>,
                  <<"reverseHolofoil", "normal">>}

Qualifies(card, v) == card[v] # Undefined /\ card[v] > 0

\* C22: the price selected for a card is the market price of the variant
\* that has a defined, strictly positive price while no variant before it
\* in the order holofoil, 1stEditionHolofoil, unlimitedHolofoil,
\* reverseHolofoil, normal has one; it is 0 when no variant has one and
\* when the card has no price data.
C22_FirstPositiveVariantWins ==
    \A r \in Requests :
        request[r].route = "refresh"
        /\ request[r].pc \in {"cacheCard", "rcpDelete", "rcpInsert"} =>
            LET card == request[r].body
                price == request[r].value
                Variants == {"holofoil", "1stEditionHolofoil",
                             "unlimitedHolofoil", "reverseHolofoil", "normal"}
            IN IF card = NoMap THEN price = 0
               ELSE IF \A v \in Variants : ~Qualifies(card, v) THEN price = 0
               ELSE \E v \in Variants :
                       /\ Qualifies(card, v) /\ price = card[v]
                       /\ \A w \in Variants : Before(w, v) => ~Qualifies(card, w)

\* The card has holofoil 0, no 1stEditionHolofoil, reverseHolofoil 2 and
\* normal 1, and the price selected is 2.
C22_Witness ==
    \E r \in Requests :
        /\ request[r].pc = "cacheCard" /\ request[r].body # NoMap
        /\ request[r].body["holofoil"] = 0
        /\ request[r].body["1stEditionHolofoil"] = Undefined
        /\ request[r].body["unlimitedHolofoil"] = Undefined
        /\ request[r].body["reverseHolofoil"] = 2
        /\ request[r].body["normal"] = 1
        /\ request[r].value = 2

\* The calendar day of instant t in the reference timezone.
CalendarDay(t) == (t - ChicagoOffset) \div TicksPerDay

\* C21: the bounds a history write computes hold exactly the instants of
\* the current calendar day of the reference timezone, and the day kept is
\* that day; a step that removes rows from a history table is the delete
\* of a write for some key and day D, and it removes the rows of that key
\* stamped on day D, leaving every row of another day and every row of
\* another key as it was.
C21_DeleteOnlySameKeyAndDay ==
    /\ [](/\ today = CalendarDay(now)
          /\ \A t \in 0..(MaxTime + TicksPerDay) :
                (todayBound(now) <= t /\ t < tomorrowBound(now))
                <=> CalendarDay(t) = CalendarDay(now))
    /\ [][/\ \A x \in DOMAIN cardPriceHistory :
                CopiesIn(x, cardPriceHistory') < CopiesIn(x, cardPriceHistory)
                => \E p \in Calls :
                      /\ frame[p].pc = "rcpDelete"
                      /\ x.cardId = frame[p].uniqueCardIds[frame[p].i]
                      /\ x.recordedAt = frame[p].day
          /\ \A x \in DOMAIN portfolioValueHistory :
                CopiesIn(x, portfolioValueHistory')
                   < CopiesIn(x, portfolioValueHistory)
                => \E p \in Calls :
                      /\ frame[p].pc = "rpvDelete"
                      /\ x.userId = frame[p].users[frame[p].u]
                      /\ x.recordedAt = frame[p].day
          /\ \A p \in Calls :
                frame[p].pc = "rcpDelete" /\ frame'[p].pc = "rcpInsert"
                => \A x \in DOMAIN cardPriceHistory' :
                      ~(x.cardId = frame[p].uniqueCardIds[frame[p].i]
                        /\ x.recordedAt = frame[p].day)]_vars

\* On day 1 a cycle has replaced nothing of day 0: the card c1 has its row
\* of day 0 and its row of day 1, and the row of c2 of day 0 is still
\* there.
C21_Witness ==
    /\ today = 1
    /\ \E p \in Calls :
          /\ frame[p].pc = "delay"
          /\ frame[p].uniqueCardIds[frame[p].i] = "c1" /\ frame[p].day = 1
    /\ \E x \in DOMAIN cardPriceHistory : x.cardId = "c1" /\ x.recordedAt = 0
    /\ \E x \in DOMAIN cardPriceHistory : x.cardId = "c1" /\ x.recordedAt = 1
    /\ \E x \in DOMAIN cardPriceHistory : x.cardId = "c2" /\ x.recordedAt = 0

\* The quantities of the holdings hs, added up.
RECURSIVE QuantityOf(_)
QuantityOf(hs) ==
    IF hs = {} THEN 0
    ELSE LET h == CHOOSE x \in hs : TRUE
         IN h.quantity + QuantityOf(hs \ {h})

\* The total of a user over the cards cs under the prices m: for each card
\* its price times the quantity the user holds of it in all.
RECURSIVE TotalOfCards(_, _, _)
TotalOfCards(user, cs, m) ==
    IF cs = {} THEN 0
    ELSE LET c == CHOOSE x \in cs : TRUE
         IN m[c] * QuantityOf({h \in portfolioCards :
                                 h.userId = user /\ h.cardId = c})
            + TotalOfCards(user, cs \ {c}, m)

\* C31 as stated: when the holdings of a user arrive, every one of them has
\* a fetched price and the total kept is the sum of fetched price times
\* quantity over all of them, also when holdings were added through the API
\* after the cycle listed its card ids.
C31_TotalCoversWholePortfolio ==
    [][\A p \in Calls :
         frame[p].pc = "cards" /\ frame'[p].pc \in {"batch", "rpvDelete"} =>
            LET f == frame[p]
                user == f.users[f.u]
                held == getAllPortfolioCards(user)
            IN /\ \A h \in held : h.cardId \in DOMAIN f.priceMap
               /\ frame'[p].totalValue
                    = TotalOfCards(user, {h.cardId : h \in held}, f.priceMap)]_vars

\* C31 amended: a call in its valuation has a fetched price for exactly the
\* card ids it listed; when the holdings of a user arrive, the total kept
\* is the sum of fetched price times quantity over the holdings the user
\* then has of a listed card, a holding added after the listing included,
\* and a holding of a card that was not listed adds nothing; the value
\* record written holds that total to two decimals.
C31_TotalCoversListedCards ==
    /\ [](\A p \in Calls :
            frame[p].pc \in ValuationPcs
            => DOMAIN frame[p].priceMap = Range(frame[p].uniqueCardIds))
    /\ [][\A p \in Calls :
            LET f == frame[p]
                user == f.users[f.u]
            IN /\ f.pc = "cards" /\ frame'[p].pc \in {"batch", "rpvDelete"} =>
                    frame'[p].totalValue
                      = TotalOfCards(user, Range(f.uniqueCardIds), f.priceMap)
               /\ f.pc = "rpvInsert"
                  /\ portfolioValueHistory' # portfolioValueHistory =>
                    portfolioValueHistory'
                      = Insert(portfolioValueHistory,
                               [userId |-> user,
                                totalValue |-> toFixed2(f.totalValue),
                                recordedAt |-> today])]_vars

\* The cycle listed c1 alone and fetched the price 1; its owner u1, who
\* held two of c1, was given two of c2 through POST /api/portfolio
\* afterwards; the total kept for u1 is 2, the new holding left out.
C31_Witness ==
    \E p \in Calls, r \in Requests :
        /\ frame[p].pc = "rpvInsert" /\ frame[p].users[frame[p].u] = "u1"
        /\ frame[p].uniqueCardIds = <<"c1">> /\ frame[p].priceMap["c1"] = 1
        /\ frame[p].totalValue = 2
        /\ request[r].route = "create" /\ request[r].status = 200
        /\ \E h \in portfolioCards :
              h.id = NewId(r) /\ h.userId = "u1" /\ h.cardId = "c2"
              /\ h.quantity = 2
        /\ \E h \in portfolioCards : h.id = "h1"

\* C32: the attempt number of a call past the guard is between 1 and
\* MAX_RETRIES; a call that passes the guard on a trigger starts attempt 1;
\* a call waits for a retry only with attempts left, and the step that ends
\* the wait either starts the attempt numbered one more or returns; no
\* other step changes the attempt number of a call that goes on.
C32_AttemptsBoundedByMaximum ==
    /\ [](\A p \in Calls :
            Running(p) => frame[p].attempt \in 1..MAX_RETRIES)
    /\ [][\A p \in Calls :
            /\ frame[p].pc = "idle" /\ Running(p)' => frame'[p].attempt = 1
            /\ frame'[p].pc = "retryWait" => frame'[p].attempt < MAX_RETRIES
            /\ Running(p) /\ Running(p)' =>
                 IF frame[p].pc = "retryWait" /\ frame'[p] # frame[p]
                 THEN frame'[p].attempt = frame[p].attempt + 1
                 ELSE frame'[p].attempt = frame[p].attempt]_vars

\* The first attempt of a cycle, numbered 1, has failed on a card and the
\* call waits for its retry.
C32_Witness ==
    \E p \in Calls :
        /\ frame[p].pc = "retryWait" /\ frame[p].attempt = 1
        /\ Len(frame[p].failedCards) > 0 /\ frame[p].passes = 1

\* C33: the promise of a trigger call resolves to true only out of an
\* attempt of that call that listed no card, or out of the valuation of an
\* attempt whose failed list is empty and which fetched every listed card
\* once and has its price in the map and its row of today in the card price
\* history; every other return resolves to false, that of a trigger dropped
\* at the guard and that of a cycle that failed included.
C33_TrueOnlyAfterCleanAttempt ==
    [][\A p \in Calls :
         frame[p].pc # "done" /\ frame'[p].pc = "done" =>
            LET f == frame[p]
                clean ==
                    /\ f.pc \in ValuationPcs
                    /\ f.failedCards = <<>>
                    /\ f.fetchLog = f.uniqueCardIds
                    /\ DOMAIN f.priceMap = Range(f.uniqueCardIds)
                    /\ \A c \in Range(f.uniqueCardIds) :
                          BagIn([cardId |-> c, price |-> toFixed2(f.priceMap[c]),
                                 recordedAt |-> today], cardPriceHistory)
                empty == f.pc = "list" /\ getAllUniqueCardIds = {<<>>}
            IN /\ frame'[p].result \in {"true", "false"}
               /\ frame'[p].result = "true" => empty \/ clean
               /\ f.pc = "idle" => frame'[p].result = "false" /\ isRunning
               /\ f.pc \in FetchPcs \cup {"retryWait"}
                  => frame'[p].result = "false"]_vars

\* One trigger call has returned true with the prices of both cards
\* recorded, and another has returned false.
C33_Witness ==
    \E p, q \in Calls :
        /\ frame[p].pc = "done" /\ frame[p].result = "true"
        /\ frame[q].pc = "done" /\ frame[q].result = "false"
        /\ \A c \in CardIds : \E x \in DOMAIN cardPriceHistory : x.cardId = c

\* C34: every card in the price map of an attempt has its row of today,
\* holding the mapped price, in the card price history, and is not in the
\* failed list; the map and the failed list together hold the cards dealt
\* with so far. A card enters the map only in the step that inserts its
\* history row, with the price fetched for it in this attempt, and an
\* entry of the map is never changed or removed while the attempt lasts;
\* when a statement of the history write rejects after the fetch succeeded,
\* the card is appended to the failed list and the map stays as it was.
C34_PriceMapHoldsRecordedCards ==
    /\ [](\A p \in Calls :
            LET f == frame[p] IN
            Running(p) /\ f.pc # "list" =>
               /\ \A c \in DOMAIN f.priceMap :
                     /\ c \notin Range(f.failedCards)
                     /\ BagIn([cardId |-> c, price |-> toFixed2(f.priceMap[c]),
                               recordedAt |-> today], cardPriceHistory)
               /\ DOMAIN f.priceMap \cup Range(f.failedCards) = Processed(f))
    /\ [][\A p \in Calls :
            LET f == frame[p]
                g == frame'[p]
                c == f.uniqueCardIds[f.i]
            IN /\ Running(p) /\ Running(p)' /\ g.pc # "list" =>
                  /\ \A d \in DOMAIN f.priceMap :
                        d \in DOMAIN g.priceMap /\ g.priceMap[d] = f.priceMap[d]
                  /\ DOMAIN g.priceMap # DOMAIN f.priceMap =>
                        /\ f.pc = "rcpInsert"
                        /\ DOMAIN g.priceMap = DOMAIN f.priceMap \cup {c}
                        /\ g.priceMap[c] = f.currentPrice
                        /\ c \in Range(f.fetchLog)
                        /\ cardPriceHistory'
                             = Insert(cardPriceHistory,
                                      [cardId |-> c,
                                       price |-> toFixed2(f.currentPrice),
                                       recordedAt |-> today])
               /\ f.pc \in {"rcpDelete", "rcpInsert"}
                  /\ g # f /\ g.pc \notin {"rcpInsert", "delay"} =>
                     /\ g.pc \in {"fetch", "retryWait"}
                     /\ g.failedCards = Append(f.failedCards, c)
                     /\ g.priceMap = f.priceMap
                     /\ c \notin DOMAIN g.priceMap]_vars

\* The price 0 of c1 was recorded; then the price 1 of c2 was fetched and
\* its history write rejected: c1 alone is in the map, c2 alone in the
\* failed list, and the history holds no row of c2.
C34_Witness ==
    \E p \in Calls :
        /\ frame[p].pc = "retryWait"
        /\ frame[p].uniqueCardIds = <<"c1", "c2">>
        /\ DOMAIN frame[p].priceMap = {"c1"} /\ frame[p].priceMap["c1"] = 0
        /\ frame[p].currentPrice = 1
        /\ frame[p].failedCards = <<"c2">>
        /\ ~ \E x \in DOMAIN cardPriceHistory : x.cardId = "c2"

\* C35: a call writes the value record of a user only once the batch of
\* that user is over: while it awaits a statement of the value record no
\* row update of its own is in flight, and every row update of a batch
\* that settles while the call stays with the user was applied to the
\* holding it names. When the batch fails the call leaves the user, to the
\* next one or to its return, with no value record written; the users of
\* an attempt are distinct and visited in order, and the step that inserts
\* a value record, the one of the current user, leaves the user too, so a
\* user gets at most one value record per attempt.
C35_ValueRecordAfterBatch ==
    /\ [](\A p \in Calls :
            frame[p].pc \in UserPcs =>
               /\ Cardinality(Range(frame[p].users)) = Len(frame[p].users)
               /\ frame[p].u \in 1..Len(frame[p].users)
               /\ frame[p].pc \in {"rpvDelete", "rpvInsert"}
                  => ~ \E x \in rowUpdates : x.owner = p)
    /\ [][\A p \in Calls :
            LET f == frame[p]
                g == frame'[p]
                left == g.pc = "done" \/ (g.pc = "cards" /\ g.u = f.u + 1)
            IN /\ f.pc \in UserPcs /\ g.pc \in UserPcs =>
                  g.users = f.users /\ g.u \in {f.u, f.u + 1}
               /\ f.pc = "batch" /\ g.pc \in {"batch", "rpvDelete"} =>
                  \A x \in rowUpdates \ rowUpdates' :
                     x.owner = p =>
                        /\ x.userId = f.users[f.u]
                        /\ \A h \in portfolioCards' :
                              h.id = x.id /\ h.userId = x.userId
                              => h.currentPrice = x.currentPrice
               /\ f.pc = "batch" /\ g # f /\ g.pc \notin {"batch", "rpvDelete"} =>
                  left /\ UNCHANGED portfolioValueHistory
               /\ g.pc = "rpvDelete" /\ g # f => f.pc \in {"cards", "batch"}
               /\ g.pc = "rpvInsert" /\ g # f => f.pc = "rpvDelete"
               /\ f.pc = "rpvInsert" /\ g # f => left]_vars
    /\ [][\A x \in DOMAIN portfolioValueHistory' :
            CopiesIn(x, portfolioValueHistory') > CopiesIn(x, portfolioValueHistory)
            => \E p \in Calls :
                  /\ frame[p].pc = "rpvInsert"
                  /\ x.userId = frame[p].users[frame[p].u]
                  /\ frame'[p] # frame[p]]_vars

\* The batch of u1, of two row updates, failed on one of them and the
\* other is still in flight with nobody awaiting it; the call has moved to
\* u2, whose value record it is inserting, and u1 has no value record.
C35_Witness ==
    \E p \in Calls :
        /\ frame[p].pc = "rpvInsert"
        /\ frame[p].users = <<"u1", "u2">> /\ frame[p].u = 2
        /\ \E x \in rowUpdates : x.owner = 0 /\ x.userId = "u1"
        /\ ~ \E x \in DOMAIN portfolioValueHistory : x.userId = "u1"

\* C36: while scheduledTask is null, which it is from the return of
\* stopPriceTracking until startPriceTracking is called again, no step is
\* the firing of a scheduled trigger, whatever calls of startPriceTracking
\* and stopPriceTracking came before; and a call of stopPriceTracking
\* leaves the flag, the locals of every call and the tables as they are.
C36_NoScheduledTriggerAfterStop ==
    /\ [][scheduledTask = 0 => ~ScheduledTrigger]_vars
    /\ [][stopPriceTracking => UNCHANGED <<isRunning, frame, dbVars>>]_vars

\* The total of the holdings hs at the fresh prices m, holding by holding.
RECURSIVE FreshTotal(_, _)
FreshTotal(hs, m) ==
    IF hs = {} THEN 0
    ELSE LET h == CHOOSE x \in hs : TRUE
         IN h.quantity * m[h.id] + FreshTotal(hs \ {h}, m)

\* Every holding refreshPrices started from has been given a price.
AllRefreshed ==
    /\ client.refreshes = {}
    /\ \A h \in client.cards :
          h.id \in DOMAIN client.priceUpdates /\ client.priceUpdates[h.id] # Null

\* C37: once the refresh of one holding has failed, refreshPrices sends no
\* PATCH and no total and ends by throwing: the holdings of the user stay
\* as they were and no value record exists. A holding is patched, with
\* the fresh price of its own refresh, and a total is recorded only when
\* every holding was given a price; then a PATCH is sent for every holding,
\* and once none is in flight one total, the sum of fresh price times
\* quantity over all the holdings, is recorded as the row of today and the
\* function ends.
C37_RefreshAllOrNothing ==
    /\ [](\A id \in DOMAIN client.priceUpdates :
            client.priceUpdates[id] = Null =>
               /\ client.patches = {}
               /\ client.pc \in {"refreshing", "done"}
               /\ client.pc = "done" => client.result = "thrown"
               /\ getAllPortfolioCards(client.userId) = client.cards
               /\ portfolioValueHistory = EmptyBag)
    /\ [][/\ portfolioCards' # portfolioCards =>
               /\ AllRefreshed
               /\ \A h \in portfolioCards' \ portfolioCards :
                     /\ h.id \in client.patches \ client'.patches
                     /\ h.userId = client.userId
                     /\ h.currentPrice = toFixed2(client.priceUpdates[h.id])
          /\ client.pc # "patching" /\ client'.pc = "patching" =>
               /\ AllRefreshed'
               /\ client'.patches = {h.id : h \in client.cards}
          /\ client'.patches \subseteq client.patches
             \/ (client.pc # "patching" /\ client'.pc = "patching")
          /\ portfolioValueHistory' # portfolioValueHistory =>
               /\ AllRefreshed
               /\ client.pc = "recording" /\ client.patches = {}
               /\ portfolioValueHistory'
                    = Insert(DeleteWhere(portfolioValueHistory,
                                         {x \in DOMAIN portfolioValueHistory :
                                            x.userId = client.userId
                                            /\ x.recordedAt = today}),
                             [userId |-> client.userId,
                              totalValue |->
                                 toFixed2(FreshTotal(client.cards,
                                                     client.priceUpdates)),
                              recordedAt |-> today])
               /\ client'.pc = "done"]_vars

\* User u1 holds h1 and h2; the refresh of h1 gave the price 1 and that of
\* h2 failed: refreshPrices has thrown, both holdings still have the price
\* 0 and no value record exists.
C37_Witness ==
    /\ client.pc = "done" /\ client.result = "thrown"
    /\ client.userId = "u1"
    /\ DOMAIN client.priceUpdates = {"h1", "h2"}
    /\ client.priceUpdates["h1"] = 1 /\ client.priceUpdates["h2"] = Null
    /\ \A h \in portfolioCards : h.currentPrice = 0
    /\ portfolioValueHistory = EmptyBag

====
